---- MODULE Spec2Model ----
(***************************************************************************)
(* word-mcp: the COM instance pool (com_pool.py), the automation bridge    *)
(* tools (tools/tracked_editing.py, tools/tracked_changes.py,              *)
(* tools/tables_com.py, tools/images_com.py), the paragraph index          *)
(* translator and the document registry (document_manager.py).             *)
(*                                                                         *)
(* Specifications:                                                         *)
(*   SpecPool      threads entering and leaving COMPool.get_word_app       *)
(*   SpecTranslate _translate_paragraph_index on bounded inputs            *)
(*   SpecRegistry  DocumentManager.create_document and open_document       *)
(*   SpecBridge    one bridge tool invocation, from its call to its return *)
(*   SpecLifecycle the lifecycle tools (tools/document.py) and the         *)
(*                 paragraph tools (tools/text.py) on the registry         *)
(*   SpecRoundTrip create, edit, save, close and open of one path          *)
(*   SpecShutdown  COMPool.close_all among threads inside get_word_app     *)
(*   SpecPoolLive  get_word_app under fair scheduling                      *)
(*   SpecRace      two bridge tool invocations running concurrently        *)
(*   SpecSession   one bridge tool invocation among the lifecycle tools    *)
(***************************************************************************)
EXTENDS Integers, Sequences, FiniteSets, TLC

(* ---------------------------------------------------------------- bounds *)
\* threads that call get_word_app concurrently in SpecPool
NumThreads == 2
\* largest pool_size the constructor is given
MaxPoolSize == 2
\* longest automation paragraph collection given to the index translator
MaxParas == 5
\* registry calls (create, open) made in one behaviour
MaxRegOps == 3
\* registry calls that set the session up before the bridge invocation
MaxSetupOps == 1
\* lifecycle and paragraph tool calls made in one behaviour of SpecLifecycle
MaxLifeOps == 3
\* calls made in one behaviour of SpecRoundTrip
MaxRoundTripOps == 7
\* launches after which a thread takes no further invocation in SpecPoolLive
MaxInvocations == 3
\* lifecycle and paragraph tool calls made in one behaviour of SpecSession
MaxSessionOps == 3

(* ----------------------------------------------------------------- state *)
VARIABLES
  pool_size,          \* COMPool.pool_size
  _semaphore,         \* free permits of COMPool._semaphore
  _active_instances,  \* COMPool._active_instances, a list of instance ids
  _lock,              \* COMPool._lock: 0 when free, else the holding thread
  total_created,      \* COMPool.total_created
  total_failed,       \* COMPool.total_failed
  alive,              \* instance ids whose Word process is running
  pc,                 \* per thread: position in get_word_app / the tool
  app,                \* per thread: the local `app` of get_word_app
  exc,                \* per thread: an exception is propagating
  exit_path,          \* per thread: how the scope body was left
  com_doc,            \* per thread: document open in its instance
  cleanup_log,        \* per thread: cleanup steps run by this acquisition
  launch_failures,    \* history: launches (lines 88-90) that raised
  tr_paras,           \* translator input: what Information() gives per paragraph
  tr_index,           \* translator input: python_docx_index
  tr_out,             \* translator: what the call returned or raised
  disk,               \* the filesystem: absolute path -> file content or NoFile
  _documents,         \* DocumentManager._documents, a dict in insertion order
  _untitled_counter,  \* DocumentManager._untitled_counter
  next_handle,        \* identity of the next Document object constructed
  reg_last,           \* the last registry call: what it was given and returned
  reg_budget,         \* registry calls still to be made
  hist,               \* history: placeholder numbers issued, paragraphs saved
  op,                 \* per thread: the tool invocation it runs
  shutdown,           \* the thread that runs COMPool.close_all
  blocked             \* history, per thread: it found no permit free

poolVars == <<pool_size, _semaphore, _active_instances, _lock,
              total_created, total_failed>>
threadVars == <<pc, app, exc, exit_path, com_doc, cleanup_log>>
threadVars_but_pc == <<app, exc, exit_path, com_doc, cleanup_log>>
trVars == <<tr_paras, tr_index, tr_out>>
regVars == <<disk, _documents, _untitled_counter, next_handle, reg_last,
             reg_budget, hist>>
\* the shutdown call, and the record of who had to wait for a permit
shutVars == <<shutdown, blocked>>
\* what the steps of get_word_app leave alone
envVars == <<trVars, regVars, op, shutVars>>
vars == <<poolVars, alive, threadVars, launch_failures, trVars, regVars, op,
          shutVars>>

Threads == 1..NumThreads

\* `app = None`
NoApp == 0
\* the instance thread t launches: every invocation runs on its own
\* worker thread and launches at most one instance
InstanceOf(t) == t
\* no document open in the instance
NoDoc == [none |-> TRUE]
\* a document the scope body opened (SpecPool does not look inside it)
SomeDoc == [none |-> FALSE]

\* list.remove(x): drop the first occurrence of x
RECURSIVE ListRemove(_, _)
ListRemove(s, x) ==
  IF s = <<>> THEN <<>>
  ELSE IF Head(s) = x THEN Tail(s)
  ELSE <<Head(s)>> \o ListRemove(Tail(s), x)

\* x in list
ListHas(s, x) == \E i \in 1..Len(s) : s[i] = x

(* -------------------------------------------------------- COMPool.__init__ *)
PoolInit(size) ==
  /\ pool_size = size
  /\ _semaphore = size
  /\ _active_instances = <<>>
  /\ _lock = 0
  /\ total_created = 0
  /\ total_failed = 0

\* close_all has not been called
ShutdownIdle ==
  [pc |-> "idle", instances_to_close |-> <<>>, count |-> 0,
   attempted |-> {}, dropped |-> {}]

\* no thread is inside get_word_app, and none has waited
ThreadInit ==
  /\ pc = [t \in Threads |-> "idle"]
  /\ app = [t \in Threads |-> NoApp]
  /\ exc = [t \in Threads |-> FALSE]
  /\ exit_path = [t \in Threads |-> "none"]
  /\ com_doc = [t \in Threads |-> NoDoc]
  /\ cleanup_log = [t \in Threads |-> <<>>]
  /\ shutdown = ShutdownIdle
  /\ blocked = [t \in Threads |-> FALSE]

\* the translator is not running
TranslateIdle ==
  /\ tr_paras = <<>>
  /\ tr_index = 0
  /\ tr_out = [status |-> "idle"]

(* ------------------------------------------------------------ documents *)
\* Text is a sequence of characters; CR is the paragraph mark "\r" and
\* BEL the cell end marker "\x07" that Range.Text carries.
CR == "CR"
BEL == "BEL"

\* A document body is a sequence of blocks: body paragraphs and tables
\* (a table is a sequence of rows, a row a sequence of cell texts).
Para(text) == [kind |-> "p", text |-> text, rows |-> <<>>]
Table(rows) == [kind |-> "tbl", text |-> <<>>, rows |-> rows]

\* docx.Document(): the blank document of the default template
\* (size: the bytes of the file a document is read from; an in-memory
\* document has none)
BlankDoc ==
  [blocks |-> <<>>, track |-> FALSE, inline_shapes |-> 0, shapes |-> 0,
   revisions |-> 0, size |-> 0]

\* errors.py: MAX_DOCUMENT_SIZE = 10 * 1024 * 1024
MAX_DOCUMENT_SIZE == 10 * 1024 * 1024
\* os.path.getsize of the files met: just under, at and just over the cap
FileSizes == {MAX_DOCUMENT_SIZE - 1, MAX_DOCUMENT_SIZE, MAX_DOCUMENT_SIZE + 1}
\* the same document in a file of s bytes
Sized(doc, s) == [doc EXCEPT !.size = s]
\* what a document holds, whatever file it came from
Content(doc) == [doc EXCEPT !.size = 0]

\* no file at a path
NoFile == [missing |-> TRUE]

\* a saved document with two body paragraphs around a one-row, two-column
\* table and one inline image
FixtureDoc(track) ==
  [blocks |-> << Para(<<"a">>),
                 Table(<< << <<"c">>, <<"d">> >> >>),
                 Para(<<"A", "b">>) >>,
   track |-> track, inline_shapes |-> 1, shapes |-> 0, revisions |-> 0,
   size |-> MAX_DOCUMENT_SIZE - 1]

\* python-docx: document.paragraphs and document.tables
BodyParagraphs(doc) == SelectSeq(doc.blocks, LAMBDA b : b.kind = "p")
Tables(doc) == SelectSeq(doc.blocks, LAMBDA b : b.kind = "tbl")

(* ---------------------------------------------------------------- paths *)
AbsPaths == {"/w/a.docx", "/w/b.docx"}
\* the path strings callers pass: relative to the working directory /w, or
\* absolute
RawPaths == {"a.docx", "/w/a.docx", "/w/b.docx"}

\* f"Untitled-{n}"
UntitledName(n) ==
  CASE n = 1 -> "Untitled-1" [] n = 2 -> "Untitled-2"
    [] n = 3 -> "Untitled-3" [] n = 4 -> "Untitled-4"
    [] n = 5 -> "Untitled-5" [] OTHER -> "Untitled-6"
\* key.startswith("Untitled-")
IsUntitled(key) == key \in {UntitledName(n) : n \in 1..6}

\* DocumentManager._normalize_path: str(Path(path).resolve())
_normalize_path(path) ==
  CASE path = "a.docx" -> "/w/a.docx"
    [] path = "b.docx" -> "/w/b.docx"
    [] path \in AbsPaths -> path
    [] OTHER -> "/w/" \o path

\* Path(p).exists()
Exists(fs, path) == path \in DOMAIN fs /\ fs[path] # NoFile

(* ------------------------------------------------------ DocumentManager *)
\* key in self._documents
Registered(docs, key) == \E i \in 1..Len(docs) : docs[i].key = key

\* self._documents[key]
HandleOf(docs, key) ==
  docs[CHOOSE i \in 1..Len(docs) : docs[i].key = key].handle

\* self._documents[key] = handle: replaces the value of a key that is
\* present (keeping its place), appends a new key
DictSet(docs, key, handle) ==
  IF Registered(docs, key)
  THEN [i \in 1..Len(docs) |->
          IF docs[i].key = key THEN [key |-> key, handle |-> handle]
          ELSE docs[i]]
  ELSE Append(docs, [key |-> key, handle |-> handle])

\* no save has written this path in this process
NotSaved == <<[kind |-> "not saved", text |-> <<>>, rows |-> <<>>]>>

\* DocumentManager.__init__, and the files the process finds on disk
RegistryInit(budget) ==
  /\ _documents = <<>>
  /\ _untitled_counter = 0
  /\ next_handle = 1
  /\ reg_last = [tool |-> "none"]
  /\ reg_budget = budget
  /\ hist = [issued |-> <<>>, saved |-> [p \in AbsPaths |-> NotSaved]]

\* no tool invocation
NoOp == [tool |-> "none"]

\* the registry and the bridge are not running
RegistryIdle ==
  /\ RegistryInit(MaxRegOps)
  /\ disk = [p \in AbsPaths |-> NoFile]
  /\ op = [t \in Threads |-> NoOp]

CreateRefused_Never(fs, abs_path) == FALSE

\* lines 77-79: `if Path(abs_path).exists(): raise FileExistsError`
CreateRefused(fs, abs_path) == Exists(fs, abs_path)

\* DocumentManager.create_document(path); path "" stands for None
DM_create_document(path) ==
  /\ reg_budget > 0
  /\ reg_budget' = reg_budget - 1
  /\ next_handle' = next_handle + 1
  /\ LET doc == [id |-> next_handle, doc |-> BlankDoc] IN
     IF path # ""
     THEN LET abs_path == _normalize_path(path) IN
          IF CreateRefused(disk, abs_path)
          THEN /\ reg_last' = [tool |-> "create", key |-> abs_path,
                               status |-> "FileExistsError", handle |-> 0,
                               pre_docs |-> _documents]
               /\ UNCHANGED <<_documents, _untitled_counter>>
          ELSE /\ _documents' = DictSet(_documents, abs_path, doc)
               /\ reg_last' = [tool |-> "create", key |-> abs_path,
                               status |-> "ok", handle |-> doc.id,
                               pre_docs |-> _documents]
               /\ UNCHANGED _untitled_counter
     ELSE LET key == UntitledName(_untitled_counter + 1) IN
          /\ _untitled_counter' = _untitled_counter + 1
          /\ _documents' = DictSet(_documents, key, doc)
          /\ reg_last' = [tool |-> "create", key |-> key, status |-> "ok",
                          handle |-> doc.id, pre_docs |-> _documents]
  /\ hist' = IF path = ""
             THEN [hist EXCEPT !.issued = Append(@, _untitled_counter + 1)]
             ELSE hist
  /\ UNCHANGED disk

OpenCached_Reload(docs, abs_path) == FALSE

\* lines 106-108: the key is present, so the cached instance is returned
OpenCached(docs, abs_path) == Registered(docs, abs_path)

\* DocumentManager.open_document(path)
DM_open_document(path) ==
  /\ reg_budget > 0
  /\ reg_budget' = reg_budget - 1
  /\ LET abs_path == _normalize_path(path) IN
     IF OpenCached(_documents, abs_path)
     THEN /\ reg_last' = [tool |-> "open", key |-> abs_path, status |-> "ok",
                          handle |-> HandleOf(_documents, abs_path).id,
                          pre_docs |-> _documents]
          /\ UNCHANGED <<_documents, next_handle>>
     ELSE IF ~Exists(disk, abs_path)
     THEN /\ reg_last' = [tool |-> "open", key |-> abs_path,
                          status |-> "FileNotFoundError", handle |-> 0,
                          pre_docs |-> _documents]
          /\ UNCHANGED <<_documents, next_handle>>
     ELSE LET doc == [id |-> next_handle, doc |-> disk[abs_path]] IN
          /\ next_handle' = next_handle + 1
          /\ _documents' = DictSet(_documents, abs_path, doc)
          /\ reg_last' = [tool |-> "open", key |-> abs_path, status |-> "ok",
                          handle |-> doc.id, pre_docs |-> _documents]
  /\ UNCHANGED <<disk, _untitled_counter, hist>>

\* the files present when the process starts
InitDisk ==
  disk \in [AbsPaths -> {NoFile, FixtureDoc(TRUE), FixtureDoc(FALSE)}]

InitRegistry ==
  /\ RegistryInit(MaxRegOps)
  /\ InitDisk
  /\ op = [t \in Threads |-> NoOp]
  /\ PoolInit(1)
  /\ alive = {}
  /\ launch_failures = 0
  /\ ThreadInit
  /\ TranslateIdle

CreateDocument ==
  /\ \E path \in RawPaths \cup {""} : DM_create_document(path)
  /\ UNCHANGED <<poolVars, alive, threadVars, launch_failures, trVars, shutVars, op>>

OpenDocument ==
  /\ \E path \in RawPaths : DM_open_document(path)
  /\ UNCHANGED <<poolVars, alive, threadVars, launch_failures, trVars, shutVars, op>>

NextRegistry ==
  \/ CreateDocument
  \/ OpenDocument

SpecRegistry == InitRegistry /\ [][NextRegistry]_vars

(* ------------------------------------------------ the automation model *)
ReplaceAt(seq, i, x) == [k \in 1..Len(seq) |-> IF k = i THEN x ELSE seq[k]]
RemoveAt(seq, i) == SubSeq(seq, 1, i - 1) \o SubSeq(seq, i + 1, Len(seq))
InsertAt(seq, i, x) == SubSeq(seq, 1, i - 1) \o <<x>> \o SubSeq(seq, i, Len(seq))

\* the paragraphs one block contributes to Document.Paragraphs: a body
\* paragraph is one paragraph whose Range.Text ends with the paragraph
\* mark; a table contributes one paragraph per cell, row by row, each
\* ending with the paragraph mark and the cell end marker
BlockParagraphs(b, bi) ==
  IF b.kind = "p"
  THEN << [in_table |-> FALSE, text |-> b.text \o <<CR>>, block |-> bi,
           row |-> 0, col |-> 0] >>
  ELSE LET ncols == IF b.rows = <<>> THEN 0 ELSE Len(b.rows[1]) IN
       [k \in 1..(Len(b.rows) * ncols) |->
          LET r == ((k - 1) \div ncols) + 1
              c == ((k - 1) % ncols) + 1 IN
          [in_table |-> TRUE, text |-> b.rows[r][c] \o <<CR, BEL>>,
           block |-> bi, row |-> r, col |-> c]]

\* com_doc.Paragraphs: the paragraphs of every block, table cells included
RECURSIVE ParagraphsFrom(_, _)
ParagraphsFrom(blocks, bi) ==
  IF bi > Len(blocks) THEN <<>>
  ELSE BlockParagraphs(blocks[bi], bi) \o ParagraphsFrom(blocks, bi + 1)
ComParagraphs(doc) == ParagraphsFrom(doc.blocks, 1)

\* what para.Range.Information(wdWithInTable) gives for each paragraph
Classify(doc) ==
  LET ps == ComParagraphs(doc) IN
  [i \in 1..Len(ps) |-> IF ps[i].in_table THEN "table" ELSE "body"]

\* the block index of the n-th table (com_doc.Tables(n)), 0 when absent
TableBlock(doc, n) ==
  LET idx == {i \in 1..Len(doc.blocks) : doc.blocks[i].kind = "tbl"} IN
  IF n < 1 \/ n > Cardinality(idx) THEN 0
  ELSE CHOOSE i \in idx : Cardinality({j \in idx : j < i}) = n - 1

\* `needle in hay` on str
Contains(hay, needle) ==
  \E i \in 0..(Len(hay) - Len(needle)) :
    SubSeq(hay, i + 1, i + Len(needle)) = needle

\* int(position) of tracked_add_paragraph: the integer, or ValueError
PositionStrings == {"end", "0", "1", "2", "-1", "x"}
ParseInt(str) ==
  CASE str = "0" -> [ok |-> TRUE, value |-> 0]
    [] str = "1" -> [ok |-> TRUE, value |-> 1]
    [] str = "2" -> [ok |-> TRUE, value |-> 2]
    [] str = "-1" -> [ok |-> TRUE, value |-> -1]
    [] OTHER -> [ok |-> FALSE, value |-> 0]

InitPool ==
  /\ \E size \in 1..MaxPoolSize : PoolInit(size)
  /\ alive = {}
  /\ launch_failures = 0
  /\ ThreadInit
  /\ TranslateIdle
  /\ RegistryIdle

(* ---------------------------------------------------- COMPool.get_word_app *)
\* a thread calls get_word_app and reaches the semaphore (line 83)
CallGetWordApp(t) ==
  /\ pc[t] = "idle"
  /\ pc' = [pc EXCEPT ![t] = "acquire"]
  /\ UNCHANGED envVars
  /\ UNCHANGED <<poolVars, alive, app, exc, exit_path, com_doc, cleanup_log,
                 launch_failures>>

\* self._semaphore.acquire(): blocks while no permit is free
SemAcquire_NoBlock(t) ==
  /\ pc[t] = "acquire"
  /\ _semaphore' = _semaphore - 1
  /\ pc' = [pc EXCEPT ![t] = "dispatch"]
  /\ UNCHANGED envVars
  /\ UNCHANGED <<pool_size, _active_instances, _lock, total_created,
                 total_failed, alive, app, exc, exit_path, com_doc,
                 cleanup_log, launch_failures>>

SemAcquire(t) ==
  /\ pc[t] = "acquire"
  /\ _semaphore > 0
  /\ _semaphore' = _semaphore - 1
  /\ pc' = [pc EXCEPT ![t] = "dispatch"]
  /\ UNCHANGED envVars
  /\ UNCHANGED <<pool_size, _active_instances, _lock, total_created,
                 total_failed, alive, app, exc, exit_path, com_doc,
                 cleanup_log, launch_failures>>

\* lines 85-90: app = None; DispatchEx; app.Visible; app.DisplayAlerts.
\*   "ok"            all three calls return
\*   "dispatch_fail" DispatchEx raises: app stays None
\*   "config_fail"   DispatchEx returned, setting a property raises: app is
\*                   bound, the process runs, the instance is not tracked
Dispatch(t) ==
  /\ pc[t] = "dispatch"
  /\ \E outcome \in {"ok", "dispatch_fail", "config_fail"} :
       LET id == InstanceOf(t) IN
       /\ app' = [app EXCEPT ![t] =
                    IF outcome = "dispatch_fail" THEN NoApp ELSE id]
       /\ alive' = IF outcome = "dispatch_fail" THEN alive ELSE alive \cup {id}
       /\ pc' = [pc EXCEPT ![t] =
                    IF outcome = "ok" THEN "track_lock" ELSE "except_lock"]
       /\ exc' = [exc EXCEPT ![t] = outcome # "ok"]
       /\ exit_path' = [exit_path EXCEPT ![t] =
                    CASE outcome = "ok" -> "none"
                      [] outcome = "dispatch_fail" -> "dispatch_failed"
                      [] OTHER -> "config_failed"]
       /\ launch_failures' =
            IF outcome = "ok" THEN launch_failures ELSE launch_failures + 1
  /\ UNCHANGED envVars
  /\ UNCHANGED <<poolVars, com_doc, cleanup_log>>

\* `with self._lock:` entered at line 93, 108 or 135
LockAcquire(t) ==
  /\ pc[t] \in {"track_lock", "except_lock", "remove_lock"}
  /\ _lock = 0
  /\ _lock' = t
  /\ pc' = [pc EXCEPT ![t] =
              CASE pc[t] = "track_lock" -> "track"
                [] pc[t] = "except_lock" -> "except"
                [] OTHER -> "remove"]
  /\ UNCHANGED envVars
  /\ UNCHANGED <<pool_size, _semaphore, _active_instances, total_created,
                 total_failed, alive, app, exc, exit_path, com_doc,
                 cleanup_log, launch_failures>>

\* lines 93-96, then `yield app` at line 105
Track(t) ==
  /\ pc[t] = "track"
  /\ _lock = t
  /\ _active_instances' = Append(_active_instances, app[t])
  /\ total_created' = total_created + 1
  /\ _lock' = 0
  /\ pc' = [pc EXCEPT ![t] = "yield"]
  /\ UNCHANGED envVars
  /\ UNCHANGED <<pool_size, _semaphore, total_failed, alive, app, exc,
                 exit_path, com_doc, cleanup_log, launch_failures>>

\* Where the generator resumes when the `with` body is left: an exception
\* raised in the body is thrown into the generator at the yield and is
\* caught by `except Exception` (line 107); a normal exit or a `return`
\* inside the body resumes it normally, and only `finally` runs.
AfterYield(how) == IF how = "raise" THEN "except_lock" ELSE "close_docs"

\* the body of `with com_pool.get_word_app() as word:` taken as a whole:
\* it may leave a document open in the instance, and ends normally, by an
\* early return, or by raising
ScopeBody(t) ==
  /\ pc[t] = "yield"
  /\ \E how \in {"normal", "return", "raise"}, leaves_open \in BOOLEAN :
       /\ exit_path' = [exit_path EXCEPT ![t] = how]
       /\ exc' = [exc EXCEPT ![t] = (how = "raise")]
       /\ com_doc' = [com_doc EXCEPT ![t] =
                        IF leaves_open THEN SomeDoc ELSE NoDoc]
       /\ pc' = [pc EXCEPT ![t] = AfterYield(how)]
  /\ UNCHANGED envVars
  /\ UNCHANGED <<poolVars, alive, app, cleanup_log,
                 launch_failures>>

FinallyEntry_ReleaseInsideIf(a) == IF a # NoApp THEN "close_docs" ELSE "released"

\* where `finally` (line 118) starts: `if app:` guards the instance cleanup
FinallyEntry(a) == IF a # NoApp THEN "close_docs" ELSE "release"

\* lines 107-116: count the failure, log, re-raise; then `finally`
ExceptHandler(t) ==
  /\ pc[t] = "except"
  /\ _lock = t
  /\ total_failed' = total_failed + 1
  /\ _lock' = 0
  /\ pc' = [pc EXCEPT ![t] = FinallyEntry(app[t])]
  /\ UNCHANGED envVars
  /\ UNCHANGED <<pool_size, _semaphore, _active_instances, total_created,
                 alive, app, exc, exit_path, com_doc, cleanup_log,
                 launch_failures>>

AfterCloseDocs_SkipOnFailure(ok) == IF ok THEN "quit" ELSE "release"

\* the step after the document-close try block (lines 121-126): its
\* `except Exception` swallows the failure, so Quit is next either way
AfterCloseDocs(ok) == "quit"

\* lines 121-126: close every open document without saving
CloseDocs(t) ==
  /\ pc[t] = "close_docs"
  /\ \E ok \in BOOLEAN :
       /\ com_doc' = [com_doc EXCEPT ![t] = IF ok THEN NoDoc ELSE @]
       /\ cleanup_log' = [cleanup_log EXCEPT ![t] =
                            Append(@, [step |-> "close_docs", ok |-> ok])]
       /\ pc' = [pc EXCEPT ![t] = AfterCloseDocs(ok)]
  /\ UNCHANGED envVars
  /\ UNCHANGED <<poolVars, alive, app, exc, exit_path,
                 launch_failures>>

\* lines 128-131: app.Quit(); a failure is logged and swallowed
Quit(t) ==
  /\ pc[t] = "quit"
  /\ \E ok \in BOOLEAN :
       /\ alive' = IF ok THEN alive \ {app[t]} ELSE alive
       /\ com_doc' = [com_doc EXCEPT ![t] = IF ok THEN NoDoc ELSE @]
       /\ cleanup_log' = [cleanup_log EXCEPT ![t] =
                            Append(@, [step |-> "quit", ok |-> ok])]
  /\ pc' = [pc EXCEPT ![t] = "remove_lock"]
  /\ UNCHANGED envVars
  /\ UNCHANGED <<poolVars, app, exc, exit_path, launch_failures>>

\* lines 133-142: under the lock drop the instance from the list if it is
\* there; then `del app; gc.collect()` releases the last COM reference,
\* which ends an instance that Quit left running
Remove(t) ==
  /\ pc[t] = "remove"
  /\ _lock = t
  /\ _active_instances' =
       IF ListHas(_active_instances, app[t])
       THEN ListRemove(_active_instances, app[t])
       ELSE _active_instances
  /\ _lock' = 0
  /\ alive' = alive \ {app[t]}
  /\ com_doc' = [com_doc EXCEPT ![t] = NoDoc]
  /\ app' = [app EXCEPT ![t] = NoApp]
  /\ cleanup_log' = [cleanup_log EXCEPT ![t] =
                       Append(@, [step |-> "remove", ok |-> TRUE])]
  /\ pc' = [pc EXCEPT ![t] = "release"]
  /\ UNCHANGED envVars
  /\ UNCHANGED <<pool_size, _semaphore, total_created, total_failed, exc,
                 exit_path, launch_failures>>

\* line 151: self._semaphore.release(); the generator ends and a pending
\* exception propagates to the caller
SemRelease(t) ==
  /\ pc[t] = "release"
  /\ _semaphore' = _semaphore + 1
  /\ cleanup_log' = [cleanup_log EXCEPT ![t] =
                       Append(@, [step |-> "release", ok |-> TRUE])]
  /\ pc' = [pc EXCEPT ![t] = "released"]
  /\ UNCHANGED envVars
  /\ UNCHANGED <<pool_size, _active_instances, _lock, total_created,
                 total_failed, alive, app, exc, exit_path, com_doc,
                 launch_failures>>

\* the caller of the scope goes on; the invocation ends and its locals die
ScopeDone(t) ==
  /\ pc[t] = "released"
  /\ pc' = [pc EXCEPT ![t] = "done"]
  /\ exc' = [exc EXCEPT ![t] = FALSE]
  /\ exit_path' = [exit_path EXCEPT ![t] = "none"]
  /\ cleanup_log' = [cleanup_log EXCEPT ![t] = <<>>]
  /\ UNCHANGED envVars
  /\ UNCHANGED <<poolVars, alive, app, com_doc, launch_failures>>

NextPool ==
  \E t \in Threads :
    \/ CallGetWordApp(t)
    \/ SemAcquire(t)
    \/ Dispatch(t)
    \/ LockAcquire(t)
    \/ Track(t)
    \/ ScopeBody(t)
    \/ ExceptHandler(t)
    \/ CloseDocs(t)
    \/ Quit(t)
    \/ Remove(t)
    \/ SemRelease(t)
    \/ ScopeDone(t)

SpecPool == InitPool /\ [][NextPool]_vars

(* -------------------------------------------------- COMPool.close_all *)
\* the identity under which the shutdown thread holds _lock
ShutdownThread == NumThreads + 1
\* the thread whose acquisition launched the instance
OwnerOf(id) == CHOOSE t \in Threads : InstanceOf(t) = id
\* what the steps of close_all leave alone
shutdownFrame == <<pool_size, _semaphore, total_created, total_failed, app,
                   exc, exit_path, cleanup_log, pc, launch_failures, trVars,
                   regVars, op, blocked>>

\* the lifespan handler calls com_pool.close_all() (server.py line 117)
\* while worker threads may be inside get_word_app
ShutdownCall ==
  /\ shutdown.pc = "idle"
  /\ shutdown' = [shutdown EXCEPT !.pc = "snapshot_lock"]
  /\ UNCHANGED <<shutdownFrame, _active_instances, _lock, alive, com_doc>>

\* `with self._lock:` entered at line 160 or 190
ShutdownLock ==
  /\ shutdown.pc \in {"snapshot_lock", "clear_lock"}
  /\ _lock = 0
  /\ _lock' = ShutdownThread
  /\ shutdown' = [shutdown EXCEPT !.pc =
                    IF @ = "snapshot_lock" THEN "snapshot" ELSE "clear"]
  /\ UNCHANGED <<shutdownFrame, _active_instances, alive, com_doc>>

\* lines 160-166: copy the list under the lock; return when it is empty
ShutdownSnapshot ==
  /\ shutdown.pc = "snapshot"
  /\ _lock = ShutdownThread
  /\ _lock' = 0
  /\ shutdown' = [shutdown EXCEPT
                    !.instances_to_close = _active_instances,
                    !.count = Len(_active_instances),
                    !.pc = IF Len(_active_instances) = 0 THEN "returned"
                           ELSE "close_docs"]
  /\ UNCHANGED <<shutdownFrame, _active_instances, alive, com_doc>>

\* lines 171-177: close the documents of the next instance of the copy; a
\* failure is logged and swallowed
ShutdownCloseDocs ==
  /\ shutdown.pc = "close_docs"
  /\ LET id == Head(shutdown.instances_to_close) IN
     \E ok \in BOOLEAN :
       com_doc' = [com_doc EXCEPT ![OwnerOf(id)] = IF ok THEN NoDoc ELSE @]
  /\ shutdown' = [shutdown EXCEPT !.pc = "quit"]
  /\ UNCHANGED <<shutdownFrame, _active_instances, _lock, alive>>

\* lines 179-188: app.Quit(), a failure logged and swallowed, then
\* `del app` of the loop variable; the loop goes on with the next instance
ShutdownQuit ==
  /\ shutdown.pc = "quit"
  /\ LET id == Head(shutdown.instances_to_close)
         rest == Tail(shutdown.instances_to_close) IN
     /\ \E ok \in BOOLEAN :
          /\ alive' = IF ok THEN alive \ {id} ELSE alive
          /\ com_doc' = [com_doc EXCEPT ![OwnerOf(id)] =
                           IF ok THEN NoDoc ELSE @]
     /\ shutdown' = [shutdown EXCEPT
                       !.attempted = @ \cup {id},
                       !.instances_to_close = rest,
                       !.pc = IF rest = <<>> THEN "clear_lock"
                              ELSE "close_docs"]
  /\ UNCHANGED <<shutdownFrame, _active_instances, _lock>>

ShutdownClear_Unlocked ==
  /\ shutdown.pc = "clear_lock"
  /\ _active_instances' = <<>>
  /\ shutdown' = [shutdown EXCEPT
                    !.dropped = {_active_instances[i] :
                                   i \in 1..Len(_active_instances)},
                    !.pc = "returned"]
  /\ UNCHANGED <<shutdownFrame, _lock, alive, com_doc>>

\* lines 190-194: `self._active_instances.clear()` under the lock, then
\* gc.collect() and the return
ShutdownClear ==
  /\ shutdown.pc = "clear"
  /\ _lock = ShutdownThread
  /\ _active_instances' = <<>>
  /\ _lock' = 0
  /\ shutdown' = [shutdown EXCEPT
                    !.dropped = {_active_instances[i] :
                                   i \in 1..Len(_active_instances)},
                    !.pc = "returned"]
  /\ UNCHANGED <<shutdownFrame, alive, com_doc>>

NextShutdown ==
  \/ NextPool
  \/ ShutdownCall
  \/ ShutdownLock
  \/ ShutdownSnapshot
  \/ ShutdownCloseDocs
  \/ ShutdownQuit
  \/ ShutdownClear

SpecShutdown == InitPool /\ [][NextShutdown]_vars

(* ------------------------------------------ get_word_app under fairness *)
\* what the two steps below leave alone
waitFrame == <<poolVars, alive, app, exc, exit_path, com_doc, cleanup_log,
               launch_failures, trVars, regVars, op, shutdown>>

\* inside self._semaphore.acquire(): no permit is free, the thread waits
SemBlock(t) ==
  /\ pc[t] = "acquire"
  /\ _semaphore = 0
  /\ ~blocked[t]
  /\ blocked' = [blocked EXCEPT ![t] = TRUE]
  /\ UNCHANGED <<waitFrame, pc>>

\* the worker thread takes its next tool invocation
NextInvocation(t) ==
  /\ pc[t] = "done"
  /\ total_created + launch_failures < MaxInvocations
  /\ pc' = [pc EXCEPT ![t] = "idle"]
  /\ blocked' = [blocked EXCEPT ![t] = FALSE]
  /\ UNCHANGED waitFrame

NextPoolLive ==
  \/ NextPool
  \/ \E t \in Threads :
       \/ SemBlock(t)
       \/ NextInvocation(t)

\* the steps of thread t between its call of get_word_app and the end of
\* the scope
ThreadStep(t) ==
  \/ SemAcquire(t)
  \/ Dispatch(t)
  \/ LockAcquire(t)
  \/ Track(t)
  \/ ScopeBody(t)
  \/ ExceptHandler(t)
  \/ CloseDocs(t)
  \/ Quit(t)
  \/ Remove(t)
  \/ SemRelease(t)
  \/ ScopeDone(t)

\* Every call made inside get_word_app and inside the scope returns or
\* raises, and a thread that waits for a permit or for the lock gets it
\* when it is free again and again. A thread is at one position, so one
\* strong fairness condition per thread says both: a step that waits for
\* nothing stays enabled until it is taken. Nothing obliges a caller to
\* call.
FairPool == \A t \in Threads : SF_vars(ThreadStep(t))

SpecPoolLive == InitPool /\ [][NextPoolLive]_vars /\ FairPool

(* ------------------------------------------- _translate_paragraph_index *)
\* what para.Range.Information(wdWithInTable) does for one paragraph:
\* "body" returns False, "table" returns True, "error" raises
InfoResults == {"body", "table", "error"}

InTable_ErrorAsTable(c) == c # "body"

\* lines 72-76: in_table, with a failed query treated as body-level
InTable(c) == IF c = "error" THEN FALSE ELSE c = "table"

\* lines 67-89: the scan from com_index on, with body_paragraph_count
\* body-level paragraphs seen so far
RECURSIVE Scan(_, _, _, _)
Scan(paras, python_docx_index, com_index, body_paragraph_count) ==
  IF com_index > Len(paras)
  THEN [status |-> "IndexError", body_count |-> body_paragraph_count]
  ELSE IF ~InTable(paras[com_index])
       THEN IF body_paragraph_count = python_docx_index
            THEN [status |-> "ok", com_index |-> com_index]
            ELSE Scan(paras, python_docx_index, com_index + 1,
                      body_paragraph_count + 1)
       ELSE Scan(paras, python_docx_index, com_index + 1,
                 body_paragraph_count)

\* lines 40-89
_translate_paragraph_index(paras, python_docx_index) ==
  IF python_docx_index < 0
  THEN [status |-> "ValueError"]
  ELSE Scan(paras, python_docx_index, 1, 0)

SeqsUpTo(S, n) == UNION {[1..k -> S] : k \in 0..n}

InitTranslate ==
  /\ tr_paras \in SeqsUpTo(InfoResults, MaxParas)
  /\ tr_index \in -1..MaxParas
  /\ tr_out = [status |-> "idle"]
  /\ PoolInit(1)
  /\ alive = {}
  /\ launch_failures = 0
  /\ ThreadInit
  /\ RegistryIdle

\* one call of the translator on the drawn input
Translate ==
  /\ tr_out.status = "idle"
  /\ tr_out' = _translate_paragraph_index(tr_paras, tr_index)
  /\ UNCHANGED <<tr_paras, tr_index, poolVars, alive, threadVars,
                 launch_failures, regVars, op, shutVars>>

NextTranslate == Translate

SpecTranslate == InitTranslate /\ [][NextTranslate]_vars

(* --------------------------------------------------- the bridge tools *)
\* COMPool.__init__(pool_size=3) of the module-level singleton com_pool
DefaultPoolSize == 3

\* the text every editing request carries
NewText == <<"x">>

TrackedTools == {"tracked_add_paragraph", "tracked_edit_paragraph",
                 "tracked_delete_paragraph", "tracked_edit_table_cell"}
TableTools == {"tracked_edit_table_cell", "delete_table_row",
               "delete_table_column"}

Req(tool, path, index, row, col, position, has_expected, expected) ==
  [tool |-> tool, path |-> path, index |-> index, row |-> row, col |-> col,
   position |-> position, has_expected |-> has_expected,
   expected |-> expected, text |-> NewText]

\* the key strings callers pass to the bridge tools
BridgePaths == RawPaths \cup {"Untitled-1"}
\* expected_text: None, or a string
ExpectedChoices == {<<FALSE, <<>> >>, <<TRUE, <<"a">> >>, <<TRUE, <<"c">> >>}

Requests ==
  UNION {
    {Req(tool, p, 0, 0, 0, "end", FALSE, <<>>) :
       tool \in {"enable_tracked_changes", "disable_tracked_changes",
                 "get_tracked_changes"}, p \in BridgePaths},
    {Req("tracked_add_paragraph", p, 0, 0, 0, pos, e[1], e[2]) :
       p \in BridgePaths, pos \in PositionStrings, e \in ExpectedChoices},
    {Req(tool, p, i, 0, 0, "end", e[1], e[2]) :
       tool \in {"tracked_edit_paragraph", "tracked_delete_paragraph"},
       p \in BridgePaths, i \in -1..2, e \in ExpectedChoices},
    {Req("tracked_edit_table_cell", p, ti, r, c, "end", FALSE, <<>>) :
       p \in BridgePaths, ti \in -1..1, r \in -1..1, c \in {0, 2}},
    {Req("delete_table_row", p, ti, r, 0, "end", FALSE, <<>>) :
       p \in BridgePaths, ti \in -1..1, r \in -1..1},
    {Req("delete_table_column", p, ti, 0, c, "end", FALSE, <<>>) :
       p \in BridgePaths, ti \in -1..1, c \in -1..2},
    {Req("reposition_image", p, i, 0, 0, "end", FALSE, <<>>) :
       p \in BridgePaths, i \in -1..1} }

\* key = path if path.startswith("Untitled-") else str(Path(path).resolve())
KeyOf(path) == IF IsUntitled(path) THEN path ELSE _normalize_path(path)

\* the checks a tool makes on the registry handle before it asks for an
\* instance; "" when they pass
PreValidate(req, doc) ==
  CASE req.tool = "tracked_add_paragraph" /\ req.position # "end" ->
         IF ~ParseInt(req.position).ok THEN "InvalidPosition"
         ELSE IF ParseInt(req.position).value < 0 THEN "InvalidPosition"
         ELSE ""
    [] req.tool \in TableTools ->
         IF req.index < 0 \/ req.index >= Len(Tables(doc))
         THEN "InvalidIndex" ELSE ""
    [] req.tool = "reposition_image" ->
         IF req.index < 0 \/ req.index >= doc.inline_shapes
         THEN "InvalidIndex" ELSE ""
    [] OTHER -> ""

\* the steps of every bridge tool before `with com_pool.get_word_app()`:
\* "" when the tool goes on to ask for an instance, else the error returned
EntryChecks(req, docs, fs) ==
  LET key == KeyOf(req.path) IN
  IF ~Registered(docs, key) THEN "NotOpen"
  ELSE IF IsUntitled(key) THEN "RequiresSavedDocument"
  ELSE IF ~Exists(fs, key) THEN "RequiresSavedDocument"
  ELSE PreValidate(req, HandleOf(docs, key).doc)

TrackingEnabled_Always(doc) == TRUE

\* `if not com_doc.TrackRevisions:` reads the flag of the opened document
TrackingEnabled(doc) == doc.track

Lower(ch) == IF ch = "A" THEN "a" ELSE ch
Verified_IgnoreCase(req, para_text) ==
  \/ ~req.has_expected
  \/ Contains([i \in 1..Len(para_text) |-> Lower(para_text[i])],
              [i \in 1..Len(req.expected) |-> Lower(req.expected[i])])

\* `if expected_text is not None: if expected_text not in old_text:`
Verified(req, para_text) ==
  \/ ~req.has_expected
  \/ Contains(para_text, req.expected)

\* _translate_paragraph_index(com_doc, index) on the open document
TranslateIn(doc, index) == _translate_paragraph_index(Classify(doc), index)

Outcome(status, doc) == [status |-> status, doc |-> doc]

\* enable_tracked_changes, lines 84-89
EnableBody(req, doc) == Outcome("ok", [doc EXCEPT !.track = TRUE])

\* disable_tracked_changes, lines 145-146
DisableBody(req, doc) == Outcome("ok", [doc EXCEPT !.track = FALSE])

\* get_tracked_changes, lines 212-233: reads the revisions
GetChangesBody(req, doc) == Outcome("ok", doc)

\* tracked_add_paragraph, lines 156-189
TrackedAddBody(req, doc) ==
  IF ~TrackingEnabled(doc) THEN Outcome("TrackingNotEnabled", doc)
  ELSE IF req.position = "end"
  THEN Outcome("ok", [doc EXCEPT !.blocks = Append(@, Para(req.text)),
                                 !.revisions = @ + 1])
  ELSE LET tr == TranslateIn(doc, ParseInt(req.position).value) IN
       IF tr.status # "ok" THEN Outcome(tr.status, doc)
       ELSE LET para == ComParagraphs(doc)[tr.com_index] IN
            IF ~Verified(req, para.text)
            THEN Outcome("ContentVerificationFailed", doc)
            ELSE Outcome("ok",
                   [doc EXCEPT !.blocks = InsertAt(@, para.block, Para(req.text)),
                               !.revisions = @ + 1])

\* tracked_edit_paragraph, lines 270-305
TrackedEditBody(req, doc) ==
  IF ~TrackingEnabled(doc) THEN Outcome("TrackingNotEnabled", doc)
  ELSE LET tr == TranslateIn(doc, req.index) IN
       IF tr.status # "ok" THEN Outcome(tr.status, doc)
       ELSE LET para == ComParagraphs(doc)[tr.com_index] IN
            IF ~Verified(req, para.text)
            THEN Outcome("ContentVerificationFailed", doc)
            ELSE Outcome("ok",
                   [doc EXCEPT !.blocks = ReplaceAt(@, para.block, Para(req.text)),
                               !.revisions = @ + 2])

\* tracked_delete_paragraph, lines 385-415
TrackedDeleteBody(req, doc) ==
  IF ~TrackingEnabled(doc) THEN Outcome("TrackingNotEnabled", doc)
  ELSE LET tr == TranslateIn(doc, req.index) IN
       IF tr.status # "ok" THEN Outcome(tr.status, doc)
       ELSE LET para == ComParagraphs(doc)[tr.com_index] IN
            IF ~Verified(req, para.text)
            THEN Outcome("ContentVerificationFailed", doc)
            ELSE Outcome("ok", [doc EXCEPT !.blocks = RemoveAt(@, para.block),
                                           !.revisions = @ + 1])

\* the bounds checks the table tools make on the open document: the
\* one-based table, row and column exist
TableMissing(req, doc) == req.index + 1 > Len(Tables(doc))
RowMissing(req, doc) ==
  LET rows == doc.blocks[TableBlock(doc, req.index + 1)].rows IN
  req.row + 1 < 1 \/ req.row + 1 > Len(rows)
ColumnMissing(req, doc) ==
  LET rows == doc.blocks[TableBlock(doc, req.index + 1)].rows IN
  req.col + 1 < 1 \/ req.col + 1 > Len(rows[1])

\* the blocks with table block bi given new rows; a table left without
\* rows or without columns is gone
WithRows(blocks, bi, rows) ==
  IF rows = <<>> \/ rows[1] = <<>> THEN RemoveAt(blocks, bi)
  ELSE ReplaceAt(blocks, bi, Table(rows))

\* tracked_edit_table_cell, lines 280-323
TrackedCellBody(req, doc) ==
  IF ~TrackingEnabled(doc) THEN Outcome("TrackingNotEnabled", doc)
  ELSE IF TableMissing(req, doc) THEN Outcome("InvalidIndex", doc)
  ELSE IF RowMissing(req, doc) THEN Outcome("InvalidIndex", doc)
  ELSE IF ColumnMissing(req, doc) THEN Outcome("InvalidIndex", doc)
  ELSE LET bi == TableBlock(doc, req.index + 1)
           rows == doc.blocks[bi].rows IN
       Outcome("ok",
         [doc EXCEPT !.blocks = ReplaceAt(@, bi,
                        Table(ReplaceAt(rows, req.row + 1,
                                ReplaceAt(rows[req.row + 1], req.col + 1,
                                          req.text)))),
                     !.revisions = @ + 2])

\* delete_table_row, lines 77-96
DeleteRowBody(req, doc) ==
  IF TableMissing(req, doc) THEN Outcome("InvalidIndex", doc)
  ELSE IF RowMissing(req, doc) THEN Outcome("InvalidIndex", doc)
  ELSE LET bi == TableBlock(doc, req.index + 1)
           rows == doc.blocks[bi].rows IN
       Outcome("ok", [doc EXCEPT !.blocks =
                        WithRows(@, bi, RemoveAt(rows, req.row + 1))])

\* delete_table_column, lines 169-188
DeleteColumnBody(req, doc) ==
  IF TableMissing(req, doc) THEN Outcome("InvalidIndex", doc)
  ELSE IF ColumnMissing(req, doc) THEN Outcome("InvalidIndex", doc)
  ELSE LET bi == TableBlock(doc, req.index + 1)
           rows == doc.blocks[bi].rows IN
       Outcome("ok", [doc EXCEPT !.blocks =
                        WithRows(@, bi,
                          [r \in 1..Len(rows) |-> RemoveAt(rows[r], req.col + 1)])])

\* reposition_image, lines 95-117
RepositionBody(req, doc) ==
  IF req.index + 1 > doc.inline_shapes THEN Outcome("InvalidIndex", doc)
  ELSE Outcome("ok", [doc EXCEPT !.inline_shapes = @ - 1, !.shapes = @ + 1])

\* the body of the tool's `with` block after Documents.Open, up to the save
ToolBody(req, doc) ==
  CASE req.tool = "enable_tracked_changes" -> EnableBody(req, doc)
    [] req.tool = "disable_tracked_changes" -> DisableBody(req, doc)
    [] req.tool = "get_tracked_changes" -> GetChangesBody(req, doc)
    [] req.tool = "tracked_add_paragraph" -> TrackedAddBody(req, doc)
    [] req.tool = "tracked_edit_paragraph" -> TrackedEditBody(req, doc)
    [] req.tool = "tracked_delete_paragraph" -> TrackedDeleteBody(req, doc)
    [] req.tool = "tracked_edit_table_cell" -> TrackedCellBody(req, doc)
    [] req.tool = "delete_table_row" -> DeleteRowBody(req, doc)
    [] req.tool = "delete_table_column" -> DeleteColumnBody(req, doc)
    [] OTHER -> RepositionBody(req, doc)

\* nothing has been invoked yet: one tool invocation is followed from its
\* call to its return, after the registry calls that set the session up
NoneInFlight == \A u \in Threads : pc[u] = "idle"

\* a bridge tool is called: lines 252-262 of tracked_edit_paragraph and
\* the same steps of the other tools, then `with com_pool.get_word_app()`
BridgeCall(t) ==
  /\ pc[t] = "idle"
  /\ NoneInFlight
  /\ \E req \in Requests :
       LET err == EntryChecks(req, _documents, disk) IN
       /\ op' = [op EXCEPT ![t] =
                   [req |-> req, key |-> KeyOf(req.path), result |-> err,
                    pre_disk |-> disk, pre_docs |-> _documents,
                    opened |-> NoDoc, mutated |-> FALSE, saved |-> FALSE]]
       /\ pc' = [pc EXCEPT ![t] = IF err = "" THEN "acquire" ELSE "done"]
  /\ UNCHANGED <<poolVars, alive, app, exc, exit_path, com_doc, cleanup_log,
                 launch_failures, trVars, shutVars, regVars>>

\* the body leaves the `with` block: by raising, by `return`, or normally
LeaveScope(t, how) ==
  /\ exit_path' = [exit_path EXCEPT ![t] = how]
  /\ exc' = [exc EXCEPT ![t] = (how = "raise")]
  /\ pc' = [pc EXCEPT ![t] = AfterYield(how)]

\* com_doc = word.Documents.Open(key)
ComOpen(t) ==
  /\ pc[t] = "yield"
  /\ \/ /\ com_doc' = [com_doc EXCEPT ![t] = disk[op[t].key]]
        /\ op' = [op EXCEPT ![t].opened = disk[op[t].key]]
        /\ pc' = [pc EXCEPT ![t] = "work"]
        /\ UNCHANGED <<exc, exit_path>>
     \/ /\ LeaveScope(t, "raise")
        /\ UNCHANGED <<com_doc, op>>
  /\ UNCHANGED <<poolVars, alive, app, cleanup_log, launch_failures, trVars, shutVars,
                 regVars>>

\* the tool's work on the open document, up to the save: it returns an
\* error, or changes the document in the instance; any automation call in
\* it may raise, before or after the document was changed
ComWork(t) ==
  /\ pc[t] = "work"
  /\ LET r == ToolBody(op[t].req, com_doc[t]) IN
     \/ /\ r.status = "ok"
        /\ com_doc' = [com_doc EXCEPT ![t] = r.doc]
        /\ op' = [op EXCEPT ![t].mutated = (r.doc # com_doc[t])]
        /\ pc' = [pc EXCEPT ![t] =
                    IF op[t].req.tool = "get_tracked_changes" THEN "close"
                    ELSE "save"]
        /\ UNCHANGED <<exc, exit_path>>
     \/ /\ r.status # "ok"
        /\ op' = [op EXCEPT ![t].result = r.status]
        /\ LeaveScope(t, "return")
        /\ UNCHANGED com_doc
     \/ /\ LeaveScope(t, "raise")
        /\ UNCHANGED <<com_doc, op>>
     \/ /\ r.status = "ok"
        /\ r.doc # com_doc[t]
        /\ com_doc' = [com_doc EXCEPT ![t] = r.doc]
        /\ op' = [op EXCEPT ![t].mutated = TRUE]
        /\ LeaveScope(t, "raise")
  /\ UNCHANGED <<poolVars, alive, app, cleanup_log, launch_failures, trVars, shutVars,
                 regVars>>

ComSaved_Nothing(fs, key, doc, s) == fs

\* the file after com_doc.Save(): it holds the document of the instance
ComSaved(fs, key, doc, s) == [fs EXCEPT ![key] = Sized(doc, s)]

\* com_doc.Save(): the instance writes its document to the file; how
\* many bytes Word writes is not the program's choice
ComSave(t) ==
  /\ pc[t] = "save"
  /\ \/ /\ \E s \in FileSizes :
             disk' = ComSaved(disk, op[t].key, com_doc[t], s)
        /\ op' = [op EXCEPT ![t].saved = TRUE]
        /\ pc' = [pc EXCEPT ![t] = "close"]
        /\ UNCHANGED <<exc, exit_path>>
     \/ /\ LeaveScope(t, "raise")
        /\ UNCHANGED <<disk, op>>
  /\ UNCHANGED <<poolVars, alive, app, com_doc, cleanup_log, launch_failures,
                 trVars, shutVars, _documents, _untitled_counter, next_handle, reg_last,
                 reg_budget, hist>>

\* com_doc.Close(), the last statement of the `with` block
ComClose(t) ==
  /\ pc[t] = "close"
  /\ \/ /\ com_doc' = [com_doc EXCEPT ![t] = NoDoc]
        /\ LeaveScope(t, "normal")
     \/ /\ LeaveScope(t, "raise")
        /\ UNCHANGED com_doc
  /\ UNCHANGED <<poolVars, alive, app, cleanup_log, launch_failures, trVars, shutVars,
                 regVars, op>>

\* where the tool goes on once the scope is left without an exception and
\* without a return: every mutating tool reloads the handle
AfterWith(tool) == IF tool = "get_tracked_changes" THEN "done" ELSE "reload"

\* control is back in the tool: `except Exception` around the `with`
\* (lines 311-313) turns an exception into the automation-failure error;
\* a `return` inside the block has returned its error
AfterScope(t) ==
  /\ pc[t] = "released"
  /\ op' = [op EXCEPT ![t].result =
              IF exc[t] THEN "AutomationFailure"
              ELSE IF exit_path[t] = "return" THEN @
              ELSE IF AfterWith(op[t].req.tool) = "done" THEN "ok" ELSE @]
  /\ pc' = [pc EXCEPT ![t] =
              IF exc[t] \/ exit_path[t] = "return" THEN "done"
              ELSE AfterWith(op[t].req.tool)]
  /\ exc' = [exc EXCEPT ![t] = FALSE]
  /\ exit_path' = [exit_path EXCEPT ![t] = "none"]
  /\ cleanup_log' = [cleanup_log EXCEPT ![t] = <<>>]
  /\ UNCHANGED <<poolVars, alive, app, com_doc, launch_failures, trVars, shutVars,
                 regVars>>

\* document_manager._documents[key] = Document(key) (line 316); an
\* exception of Document(key) is caught by the tool's outer handler
Reload(t) ==
  /\ pc[t] = "reload"
  /\ LET key == op[t].key IN
     IF Exists(disk, key)
     THEN /\ _documents' = DictSet(_documents, key,
                                   [id |-> next_handle, doc |-> disk[key]])
          /\ next_handle' = next_handle + 1
          /\ op' = [op EXCEPT ![t].result = "ok"]
     ELSE /\ op' = [op EXCEPT ![t].result = "Error"]
          /\ UNCHANGED <<_documents, next_handle>>
  /\ pc' = [pc EXCEPT ![t] = "done"]
  /\ UNCHANGED <<poolVars, alive, threadVars_but_pc, launch_failures, trVars, shutVars,
                 disk, _untitled_counter, reg_last, reg_budget, hist>>

\* the process starts with one saved document on disk
InitBridge ==
  /\ PoolInit(DefaultPoolSize)
  /\ alive = {}
  /\ launch_failures = 0
  /\ ThreadInit
  /\ TranslateIdle
  /\ RegistryInit(MaxSetupOps)
  /\ \E track \in BOOLEAN :
       disk = [p \in AbsPaths |->
                 IF p = "/w/a.docx" THEN FixtureDoc(track) ELSE NoFile]
  /\ op = [t \in Threads |-> NoOp]

\* registry calls set the session up before the tool invocation
RegistryCall ==
  /\ NoneInFlight
  /\ \/ CreateDocument
     \/ OpenDocument

NextBridge ==
  \/ RegistryCall
  \/ \E t \in Threads :
       \/ BridgeCall(t)
       \/ SemAcquire(t)
       \/ Dispatch(t)
       \/ LockAcquire(t)
       \/ Track(t)
       \/ ComOpen(t)
       \/ ComWork(t)
       \/ ComSave(t)
       \/ ComClose(t)
       \/ ExceptHandler(t)
       \/ CloseDocs(t)
       \/ Quit(t)
       \/ Remove(t)
       \/ SemRelease(t)
       \/ AfterScope(t)
       \/ Reload(t)

SpecBridge == InitBridge /\ [][NextBridge]_vars

(* ---------------------------------- lifecycle tools and paragraph tools *)
\* what a lifecycle behaviour leaves alone
nonRegVars == <<poolVars, alive, threadVars, launch_failures, trVars, shutVars, op>>

\* the path strings given to the lifecycle tools, and the key strings
LifePaths == {"a.docx", "/w/b.docx"}
LifeKeys == LifePaths \cup {"Untitled-1"}
\* paragraph positions and indexes given to the paragraph tools; NoPosition
\* stands for position=None
NoPosition == -2
LifePositions == {NoPosition, -1, 0, 1}
LifeIndexes == {-1, 0, 1}

\* del self._documents[key]
DictDel(docs, key) == SelectSeq(docs, LAMBDA e : e.key # key)

\* one registry call is made
Spend ==
  /\ reg_budget > 0
  /\ reg_budget' = reg_budget - 1

\* what the call was given and how it ended
Last(tool, key, status, handle) ==
  [tool |-> tool, key |-> key, status |-> status, handle |-> handle,
   pre_docs |-> _documents]

\* validate_document_size(path): os.path.getsize raises for a missing
\* file, the size test is `size > MAX_DOCUMENT_SIZE`
validate_document_size(fs, path) ==
  IF ~Exists(fs, path) THEN "FileNotFoundError"
  ELSE IF fs[path].size > MAX_DOCUMENT_SIZE THEN "DocumentTooLargeError"
  ELSE "ok"

\* tools/document.py open_document: the size check, then the registry
T_open_document(path) ==
  LET abs_path == _normalize_path(path)
      sized == validate_document_size(disk, abs_path) IN
  IF sized # "ok"
  THEN /\ Spend
       /\ reg_last' = Last("open", abs_path, sized, 0)
       /\ UNCHANGED <<disk, _documents, _untitled_counter, next_handle, hist>>
  ELSE DM_open_document(abs_path)

\* DocumentManager.create_from_template behind the tool's size check;
\* save_path "" stands for None
T_create_from_template(template_path, save_path) ==
  LET abs_template == _normalize_path(template_path)
      sized == validate_document_size(disk, abs_template) IN
  /\ Spend
  /\ UNCHANGED disk
  /\ IF sized # "ok"
     THEN /\ reg_last' = Last("create_from_template", abs_template, sized, 0)
          /\ UNCHANGED <<_documents, _untitled_counter, next_handle, hist>>
     ELSE LET doc == [id |-> next_handle, doc |-> disk[abs_template]] IN
          /\ next_handle' = next_handle + 1
          /\ IF save_path # ""
             THEN LET abs_save == _normalize_path(save_path) IN
                  IF Exists(disk, abs_save)
                  THEN /\ reg_last' = Last("create_from_template", abs_save,
                                           "FileExistsError", 0)
                       /\ UNCHANGED <<_documents, _untitled_counter, hist>>
                  ELSE /\ _documents' = DictSet(_documents, abs_save, doc)
                       /\ reg_last' = Last("create_from_template", abs_save,
                                           "ok", doc.id)
                       /\ UNCHANGED <<_untitled_counter, hist>>
             ELSE LET key == UntitledName(_untitled_counter + 1) IN
                  /\ _untitled_counter' = _untitled_counter + 1
                  /\ _documents' = DictSet(_documents, key, doc)
                  /\ reg_last' = Last("create_from_template", key, "ok", doc.id)
                  /\ hist' = [hist EXCEPT
                                !.issued = Append(@, _untitled_counter + 1)]

Written_Blank(fs, path, doc, s) == [fs EXCEPT ![path] = Sized(BlankDoc, s)]

\* a paragraph text so long that the package holding it exceeds the cap
HugeText == <<"HUGE">>
HasHuge(doc) == \E i \in 1..Len(doc.blocks) : doc.blocks[i].text = HugeText

\* the bytes python-docx writes for a document: over the cap with a huge
\* text in it; else what the file it was read from had, and under the cap
\* for a document made in memory
PackageSize(doc) ==
  IF HasHuge(doc) THEN MAX_DOCUMENT_SIZE + 1
  ELSE IF doc.size = 0 THEN MAX_DOCUMENT_SIZE - 1
  ELSE doc.size

\* doc.save(path): python-docx writes the handle's document to the file
Written(fs, path, doc, s) == [fs EXCEPT ![path] = Sized(doc, s)]

\* the history of what a save wrote at a path
NoteSaved(path, doc) == [hist EXCEPT !.saved[path] = BodyParagraphs(doc)]

SaveNeedsPath_Never(current_key) == FALSE

\* lines 198-201: `if current_key.startswith("Untitled-"): raise ValueError`
SaveNeedsPath(current_key) == IsUntitled(current_key)

\* DocumentManager.save_document(path): lines 177-182 and 196-206
DM_save(path) ==
  LET current_key == KeyOf(path) IN
  /\ Spend
  /\ UNCHANGED <<_documents, _untitled_counter, next_handle>>
  /\ IF ~Registered(_documents, current_key)
     THEN /\ reg_last' = Last("save", current_key, "NotOpen", 0)
          /\ UNCHANGED <<disk, hist>>
     ELSE IF SaveNeedsPath(current_key)
     THEN /\ reg_last' = Last("save", current_key, "UntitledNeedsPath", 0)
          /\ UNCHANGED <<disk, hist>>
     ELSE LET h == HandleOf(_documents, current_key) IN
          \/ /\ disk' = Written(disk, current_key, h.doc, PackageSize(h.doc))
             /\ hist' = NoteSaved(current_key, h.doc)
             /\ reg_last' = Last("save", current_key, "ok", h.id)
          \/ /\ reg_last' = Last("save", current_key, "OSError", 0)
             /\ UNCHANGED <<disk, hist>>

\* DictDel then DictSet: `del self._documents[current_key]` and
\* `self._documents[abs_new] = doc`
ReKeyed_KeepOld(docs, current_key, abs_new, h) == DictSet(docs, abs_new, h)
ReKeyed(docs, current_key, abs_new, h) ==
  DictSet(DictDel(docs, current_key), abs_new, h)

\* DocumentManager.save_document(path, save_as): lines 177-195
DM_save_as(path, new_path) ==
  LET current_key == KeyOf(path)
      abs_new == _normalize_path(new_path) IN
  /\ Spend
  /\ UNCHANGED <<_untitled_counter, next_handle>>
  /\ IF ~Registered(_documents, current_key)
     THEN /\ reg_last' = [Last("save_as", current_key, "NotOpen", 0)
                            EXCEPT !.key = abs_new]
          /\ UNCHANGED <<disk, _documents, hist>>
     ELSE LET h == HandleOf(_documents, current_key) IN
          \/ /\ disk' = Written(disk, abs_new, h.doc, PackageSize(h.doc))
             /\ hist' = NoteSaved(abs_new, h.doc)
             /\ _documents' = ReKeyed(_documents, current_key, abs_new, h)
             /\ reg_last' = [tool |-> "save_as", key |-> abs_new,
                             status |-> "ok", handle |-> h.id,
                             pre_docs |-> _documents, old_key |-> current_key]
          \/ /\ reg_last' = [Last("save_as", current_key, "OSError", 0)
                               EXCEPT !.key = abs_new]
             /\ UNCHANGED <<disk, _documents, hist>>

DM_close_AutoSave(path) ==
  LET key == KeyOf(path) IN
  /\ Spend
  /\ UNCHANGED <<_untitled_counter, next_handle, hist>>
  /\ IF ~Registered(_documents, key)
     THEN /\ reg_last' = Last("close", key, "NotOpen", 0)
          /\ UNCHANGED <<_documents, disk>>
     ELSE /\ disk' = Written(disk, key, HandleOf(_documents, key).doc,
                             PackageSize(HandleOf(_documents, key).doc))
          /\ _documents' = DictDel(_documents, key)
          /\ reg_last' = Last("close", key, "ok", 0)

\* DocumentManager.close_document(path)
DM_close(path) ==
  LET key == KeyOf(path) IN
  /\ Spend
  /\ UNCHANGED <<disk, _untitled_counter, next_handle, hist>>
  /\ IF ~Registered(_documents, key)
     THEN /\ reg_last' = Last("close", key, "NotOpen", 0)
          /\ UNCHANGED _documents
     ELSE /\ _documents' = DictDel(_documents, key)
          /\ reg_last' = Last("close", key, "ok", 0)

\* DocumentManager.close_all()
DM_close_all ==
  /\ Spend
  /\ UNCHANGED <<disk, next_handle, hist>>
  /\ reg_last' = [tool |-> "close_all", key |-> "", status |-> "ok",
                  handle |-> 0, pre_docs |-> _documents,
                  count |-> Len(_documents)]
  /\ IF Len(_documents) > 0
     THEN /\ _documents' = <<>>
          /\ _untitled_counter' = 0
     ELSE UNCHANGED <<_documents, _untitled_counter>>

\* DocumentManager.get_document(path) as get_document_info calls it
DM_get(path) ==
  LET key == KeyOf(path) IN
  /\ Spend
  /\ UNCHANGED <<disk, _documents, _untitled_counter, next_handle, hist>>
  /\ reg_last' = IF Registered(_documents, key)
                 THEN Last("get", key, "ok", HandleOf(_documents, key).id)
                 ELSE Last("get", key, "NotOpen", 0)

\* the place among the blocks of body paragraph k (zero-based):
\* doc.paragraphs[k]
BodyBlock(doc, k) ==
  CHOOSE i \in 1..Len(doc.blocks) :
    /\ doc.blocks[i].kind = "p"
    /\ Cardinality({j \in 1..i : doc.blocks[j].kind = "p"}) = k + 1

\* tools/text.py add_paragraph, lines 118-137, on the handle's document
AddParagraph(doc, text, position) ==
  LET para_count == Len(BodyParagraphs(doc)) IN
  IF position = NoPosition \/ position = para_count
  THEN Outcome("ok", [doc EXCEPT !.blocks = Append(@, Para(text))])
  ELSE IF position < 0 \/ position > para_count
  THEN Outcome("InvalidIndex", doc)
  ELSE Outcome("ok", [doc EXCEPT !.blocks =
                        InsertAt(@, BodyBlock(doc, position), Para(text))])

\* tools/text.py edit_paragraph, lines 171-190
EditParagraph(doc, text, index) ==
  IF index < 0 \/ index >= Len(BodyParagraphs(doc))
  THEN Outcome("InvalidIndex", doc)
  ELSE Outcome("ok", [doc EXCEPT !.blocks =
                        ReplaceAt(@, BodyBlock(doc, index), Para(text))])

DeletedAt_Last(doc, index) == RemoveAt(doc.blocks, Len(doc.blocks))
\* para._element.getparent().remove(para._element)
DeletedAt(doc, index) == RemoveAt(doc.blocks, BodyBlock(doc, index))

\* tools/text.py delete_paragraph, lines 220-233
DeleteParagraph(doc, text, index) ==
  IF index < 0 \/ index >= Len(BodyParagraphs(doc))
  THEN Outcome("InvalidIndex", doc)
  ELSE Outcome("ok", [doc EXCEPT !.blocks = DeletedAt(doc, index)])

\* tools/text.py read_document: reads, changes nothing
ReadDocument(doc, text, index) == Outcome("ok", doc)

TextTools == {"read_document", "add_paragraph", "edit_paragraph",
              "delete_paragraph"}

TextEffect(tool, doc, text, arg) ==
  CASE tool = "add_paragraph" -> AddParagraph(doc, text, arg)
    [] tool = "edit_paragraph" -> EditParagraph(doc, text, arg)
    [] tool = "delete_paragraph" -> DeleteParagraph(doc, text, arg)
    [] OTHER -> ReadDocument(doc, text, arg)

\* a paragraph tool: document_manager.get_document(path), then the edit in
\* place on the handle it returned; the count is the one the tool reports
T_text(tool, path, text, arg) ==
  LET key == KeyOf(path) IN
  /\ Spend
  /\ UNCHANGED <<disk, _untitled_counter, next_handle, hist>>
  /\ IF ~Registered(_documents, key)
     THEN /\ reg_last' = [tool |-> tool, key |-> key, status |-> "NotOpen",
                          handle |-> 0, pre_docs |-> _documents,
                          arg |-> arg, count |-> 0]
          /\ UNCHANGED _documents
     ELSE LET h == HandleOf(_documents, key)
              r == TextEffect(tool, h.doc, text, arg) IN
          /\ _documents' = DictSet(_documents, key,
                                   [id |-> h.id, doc |-> r.doc])
          /\ reg_last' = [tool |-> tool, key |-> key, status |-> r.status,
                          handle |-> h.id, pre_docs |-> _documents,
                          arg |-> arg,
                          count |-> Len(BodyParagraphs(r.doc))]

\* how the tool function ends for a call that ended with this status: the
\* tools of tools/document.py catch every exception and return "Error: ...";
\* the tools of tools/text.py call get_document outside any try, and test
\* its result for None
Rendered(tool, status) ==
  IF status = "ok" THEN "ok"
  ELSE IF tool \in TextTools /\ status = "NotOpen" THEN "raised ValueError"
  ELSE "Error:"

\* the process starts with an empty registry; /w/a.docx may be there
InitLifecycle ==
  /\ RegistryInit(MaxLifeOps)
  /\ disk \in [AbsPaths -> {NoFile, FixtureDoc(FALSE)}
                 \cup {Sized(FixtureDoc(FALSE), s) : s \in FileSizes}]
  /\ disk["/w/b.docx"] = NoFile
  /\ op = [t \in Threads |-> NoOp]
  /\ PoolInit(DefaultPoolSize)
  /\ alive = {}
  /\ launch_failures = 0
  /\ ThreadInit
  /\ TranslateIdle

LifeCreate ==
  /\ \E path \in LifePaths \cup {""} : DM_create_document(path)
  /\ UNCHANGED nonRegVars

LifeOpen ==
  /\ \E path \in LifePaths : T_open_document(path)
  /\ UNCHANGED nonRegVars

LifeTemplate ==
  /\ \E save_path \in LifePaths \cup {""} :
       T_create_from_template("a.docx", save_path)
  /\ UNCHANGED nonRegVars

LifeSave ==
  /\ \E path \in LifeKeys : DM_save(path)
  /\ UNCHANGED nonRegVars

LifeSaveAs ==
  /\ \E path \in LifeKeys, new_path \in LifePaths : DM_save_as(path, new_path)
  /\ UNCHANGED nonRegVars

LifeClose ==
  /\ \E path \in LifeKeys : DM_close(path)
  /\ UNCHANGED nonRegVars

LifeCloseAll ==
  /\ DM_close_all
  /\ UNCHANGED nonRegVars

LifeGet ==
  /\ \E path \in LifeKeys : DM_get(path)
  /\ UNCHANGED nonRegVars

LifeRead ==
  /\ \E path \in LifeKeys : T_text("read_document", path, <<>>, 0)
  /\ UNCHANGED nonRegVars

LifeAdd ==
  /\ \E path \in LifeKeys, position \in LifePositions :
       T_text("add_paragraph", path, <<"x">>, position)
  /\ UNCHANGED nonRegVars

LifeEdit ==
  /\ \E path \in LifeKeys, index \in LifeIndexes :
       T_text("edit_paragraph", path, <<"y">>, index)
  /\ UNCHANGED nonRegVars

LifeDelete ==
  /\ \E path \in LifeKeys, index \in LifeIndexes :
       T_text("delete_paragraph", path, <<>>, index)
  /\ UNCHANGED nonRegVars

NextLifecycle ==
  \/ LifeCreate
  \/ LifeOpen
  \/ LifeTemplate
  \/ LifeSave
  \/ LifeSaveAs
  \/ LifeClose
  \/ LifeCloseAll
  \/ LifeGet
  \/ LifeRead
  \/ LifeAdd
  \/ LifeEdit
  \/ LifeDelete

SpecLifecycle == InitLifecycle /\ [][NextLifecycle]_vars

(* ------------------------------------------- the save/close/open cycle *)
\* the path of the document that is created, edited, saved, closed and
\* opened again
RoundTripPath == "b.docx"

InitRoundTrip ==
  /\ RegistryInit(MaxRoundTripOps)
  /\ disk = [p \in AbsPaths |-> NoFile]
  /\ op = [t \in Threads |-> NoOp]
  /\ PoolInit(DefaultPoolSize)
  /\ alive = {}
  /\ launch_failures = 0
  /\ ThreadInit
  /\ TranslateIdle

RtCreate ==
  /\ DM_create_document(RoundTripPath)
  /\ UNCHANGED nonRegVars

RtAdd ==
  /\ \E position \in {NoPosition, 0, 1}, text \in {<<"x">>, HugeText} :
       T_text("add_paragraph", RoundTripPath, text, position)
  /\ UNCHANGED nonRegVars

RtEdit ==
  /\ \E index \in {0, 1} :
       T_text("edit_paragraph", RoundTripPath, <<"y">>, index)
  /\ UNCHANGED nonRegVars

RtDelete ==
  /\ \E index \in {0, 1} :
       T_text("delete_paragraph", RoundTripPath, <<>>, index)
  /\ UNCHANGED nonRegVars

RtSave ==
  /\ DM_save(RoundTripPath)
  /\ UNCHANGED nonRegVars

RtClose ==
  /\ DM_close(RoundTripPath)
  /\ UNCHANGED nonRegVars

RtOpen ==
  /\ T_open_document(RoundTripPath)
  /\ UNCHANGED nonRegVars

NextRoundTrip ==
  \/ RtCreate
  \/ RtAdd
  \/ RtEdit
  \/ RtDelete
  \/ RtSave
  \/ RtClose
  \/ RtOpen

SpecRoundTrip == InitRoundTrip /\ [][NextRoundTrip]_vars

(* ------------------------------------- bridge tools running concurrently *)
\* the requests of the concurrent invocations, all on the saved document:
\* switching tracking on, and a tracked edit of its first or of its last
\* body paragraph
RaceRequests ==
  { Req("enable_tracked_changes", "a.docx", 0, 0, 0, "end", FALSE, <<>>),
    Req("tracked_edit_paragraph", "a.docx", 0, 0, 0, "end", FALSE, <<>>),
    Req("tracked_edit_paragraph", "a.docx", 1, 0, 0, "end", FALSE, <<>>) }

\* a bridge tool is called on its worker thread, whatever the other
\* threads are doing: the entry checks, then `with com_pool.get_word_app()`
Invoke(t, req) ==
  /\ pc[t] = "idle"
  /\ LET err == EntryChecks(req, _documents, disk) IN
     /\ op' = [op EXCEPT ![t] =
                 [req |-> req, key |-> KeyOf(req.path), result |-> err,
                  pre_disk |-> disk, pre_docs |-> _documents,
                  opened |-> NoDoc, mutated |-> FALSE, saved |-> FALSE,
                  loaded |-> NoDoc, pre_budget |-> reg_budget]]
     /\ pc' = [pc EXCEPT ![t] = IF err = "" THEN "acquire" ELSE "done"]
  /\ UNCHANGED <<poolVars, alive, app, exc, exit_path, com_doc, cleanup_log,
                 launch_failures, trVars, shutVars, regVars>>

RaceCall(t) == \E req \in RaceRequests : Invoke(t, req)

DocumentOf_Handle(fs, docs, key) ==
  IF Registered(docs, key) THEN HandleOf(docs, key).doc ELSE fs[key]

\* Document(key): python-docx reads the file at the key
DocumentOf(fs, docs, key) == fs[key]

\* the right-hand side of line 316, `Document(key)`, is evaluated first;
\* an exception is caught by the tool's outer handler
LoadFile(t) ==
  /\ pc[t] = "reload"
  /\ LET key == op[t].key IN
     IF Exists(disk, key)
     THEN /\ op' = [op EXCEPT ![t].loaded = DocumentOf(disk, _documents, key)]
          /\ pc' = [pc EXCEPT ![t] = "store"]
     ELSE /\ op' = [op EXCEPT ![t].result = "Error"]
          /\ pc' = [pc EXCEPT ![t] = "done"]
  /\ UNCHANGED <<poolVars, alive, threadVars_but_pc, launch_failures, trVars,
                 shutVars, regVars>>

\* then the assignment `document_manager._documents[key] = ...` and the
\* return of the success message
StoreHandle(t) ==
  /\ pc[t] = "store"
  /\ _documents' = DictSet(_documents, op[t].key,
                           [id |-> next_handle, doc |-> op[t].loaded])
  /\ next_handle' = next_handle + 1
  /\ op' = [op EXCEPT ![t].result = "ok"]
  /\ pc' = [pc EXCEPT ![t] = "done"]
  /\ UNCHANGED <<poolVars, alive, threadVars_but_pc, launch_failures, trVars,
                 shutVars, disk, _untitled_counter, reg_last, reg_budget,
                 hist>>

\* the steps of a bridge invocation after its call
BridgeStep(t) ==
  \/ SemAcquire(t)
  \/ Dispatch(t)
  \/ LockAcquire(t)
  \/ Track(t)
  \/ ComOpen(t)
  \/ ComWork(t)
  \/ ComSave(t)
  \/ ComClose(t)
  \/ ExceptHandler(t)
  \/ CloseDocs(t)
  \/ Quit(t)
  \/ Remove(t)
  \/ SemRelease(t)
  \/ AfterScope(t)
  \/ LoadFile(t)
  \/ StoreHandle(t)

\* the document is opened before the tools are called
RaceSetup ==
  /\ NoneInFlight
  /\ OpenDocument

NextRace ==
  \/ RaceSetup
  \/ \E t \in Threads :
       \/ RaceCall(t)
       \/ BridgeStep(t)

SpecRace == InitBridge /\ [][NextRace]_vars

(* --------------------------- a bridge tool among the lifecycle tools *)
\* the requests of the invocation: one tool of each bridge module
SessionRequests ==
  { Req("enable_tracked_changes", "a.docx", 0, 0, 0, "end", FALSE, <<>>),
    Req("tracked_edit_paragraph", "a.docx", 0, 0, 0, "end", FALSE, <<>>),
    Req("delete_table_row", "a.docx", 0, 0, 0, "end", FALSE, <<>>),
    Req("reposition_image", "a.docx", 0, 0, 0, "end", FALSE, <<>>) }

\* the process starts with one saved document on disk
InitSession ==
  /\ PoolInit(DefaultPoolSize)
  /\ alive = {}
  /\ launch_failures = 0
  /\ ThreadInit
  /\ TranslateIdle
  /\ RegistryInit(MaxSessionOps)
  /\ \E track \in BOOLEAN :
       disk = [p \in AbsPaths |->
                 IF p = "/w/a.docx" THEN FixtureDoc(track) ELSE NoFile]
  /\ op = [t \in Threads |-> NoOp]

\* one bridge tool invocation is followed from its call to its return
SessionCall(t) ==
  /\ NoneInFlight
  /\ \E req \in SessionRequests : Invoke(t, req)

\* the lifecycle and paragraph tools, called before, during and after the
\* bridge invocation
SessionOpen ==
  /\ T_open_document("a.docx")
  /\ UNCHANGED nonRegVars

SessionCreate ==
  /\ DM_create_document("")
  /\ UNCHANGED nonRegVars

SessionAdd ==
  /\ T_text("add_paragraph", "a.docx", <<"x">>, NoPosition)
  /\ UNCHANGED nonRegVars

SessionClose ==
  /\ DM_close("a.docx")
  /\ UNCHANGED nonRegVars

SessionSaveAs ==
  /\ DM_save_as("a.docx", "/w/b.docx")
  /\ UNCHANGED nonRegVars

SessionCloseAll ==
  /\ DM_close_all
  /\ UNCHANGED nonRegVars

NextSession ==
  \/ SessionOpen
  \/ SessionCreate
  \/ SessionAdd
  \/ SessionClose
  \/ SessionSaveAs
  \/ SessionCloseAll
  \/ \E t \in Threads :
       \/ SessionCall(t)
       \/ BridgeStep(t)

SpecSession == InitSession /\ [][NextSession]_vars

(* ------------------------------------------------------ pool properties *)
\* the positions at which a thread holds a permit of the semaphore
HoldingPcs == {"dispatch", "track_lock", "track", "yield", "work", "save",
               "close", "except_lock", "except", "close_docs", "quit",
               "remove_lock", "remove", "release"}
Holders == {t \in Threads : pc[t] \in HoldingPcs}
\* the positions between the two ends of the scope
Quiescent == \A t \in Threads : pc[t] \in {"idle", "acquire", "released", "done"}

LogSteps(log) == [i \in 1..Len(log) |-> log[i].step]
IsPrefix(a, b) == Len(a) <= Len(b) /\ \A i \in 1..Len(a) : a[i] = b[i]
CleanupOrder == <<"close_docs", "quit", "remove", "release">>
CountStep(log, step) == Cardinality({i \in 1..Len(log) : log[i].step = step})

C2_ReleasedExactlyOnce ==
  /\ _semaphore + Cardinality(Holders) = pool_size
  /\ \A t \in Threads :
       pc[t] = "released" =>
         /\ CountStep(cleanup_log[t], "release") = 1
         /\ ~ListHas(_active_instances, InstanceOf(t))
         /\ InstanceOf(t) \notin alive
  /\ Quiescent => /\ _semaphore = pool_size
                  /\ _active_instances = <<>>
                  /\ alive = {}

\* one acquisition failed to launch, the other's body raised, and both
\* permits are back
C2_Witness ==
  /\ \E t \in Threads : pc[t] = "released" /\ exit_path[t] = "dispatch_failed"
  /\ \E t \in Threads : pc[t] = "released" /\ exit_path[t] = "raise"
  /\ _semaphore = pool_size

\* C3: the cleanup steps run in the order close documents, terminate,
\* untrack, release; a failed step skips none of the later ones, and the
\* release is the last step of every acquisition.
C3_CleanupOrder ==
  \A t \in Threads :
    /\ \/ IsPrefix(LogSteps(cleanup_log[t]), CleanupOrder)
       \/ LogSteps(cleanup_log[t]) = <<"release">>
    /\ pc[t] = "released" =>
         LogSteps(cleanup_log[t]) =
           IF exit_path[t] = "dispatch_failed" THEN <<"release">>
           ELSE CleanupOrder

\* the document close and the terminate both failed and the permit is back
C3_Witness ==
  \E t \in Threads :
    /\ pc[t] = "released"
    /\ cleanup_log[t] = << [step |-> "close_docs", ok |-> FALSE],
                           [step |-> "quit", ok |-> FALSE],
                           [step |-> "remove", ok |-> TRUE],
                           [step |-> "release", ok |-> TRUE] >>
    /\ _semaphore = pool_size - Cardinality(Holders)

\* C4: total_failed counts exactly the launches that failed; an
\* acquisition whose launch succeeded never changes it.
\* launches that raised and whose handler has not yet counted them
PendingLaunchFailures ==
  {t \in Threads : /\ pc[t] \in {"except_lock", "except"}
                   /\ exit_path[t] \in {"dispatch_failed", "config_failed"}}

C4_FailedCountsLaunchFailures ==
  total_failed + Cardinality(PendingLaunchFailures) = launch_failures

(* ------------------------------------------------ translator properties *)
\* the reference: positions classified body-level (a failed query counts
\* as body-level), and the table-interior paragraphs before a position
BodyPositions(paras) == {i \in 1..Len(paras) : paras[i] # "table"}
TablesBefore(paras, p) == Cardinality({j \in 1..(p - 1) : paras[j] = "table"})
\* the position of the K-th (zero-based) body-level paragraph
KthBody(paras, K) ==
  CHOOSE p \in BodyPositions(paras) :
    Cardinality({j \in BodyPositions(paras) : j < p}) = K

\* C7: for K below the number of body-level paragraphs the translator
\* returns K + 1 + (table-interior paragraphs before the K-th body-level
\* paragraph), the one-based position of a body-level paragraph; otherwise
\* it fails with an out-of-range error reporting the body-paragraph count.
C7_TranslateMatchesReference ==
  (tr_out.status # "idle" /\ tr_index >= 0) =>
    IF tr_index < Cardinality(BodyPositions(tr_paras))
    THEN /\ tr_out.status = "ok"
         /\ tr_out.com_index =
              tr_index + 1 + TablesBefore(tr_paras, KthBody(tr_paras, tr_index))
         /\ tr_out.com_index = KthBody(tr_paras, tr_index)
    ELSE /\ tr_out.status = "IndexError"
         /\ tr_out.body_count = Cardinality(BodyPositions(tr_paras))

\* a body paragraph behind two table-interior paragraphs, one of them
\* classified after a failed query, is translated to position 4
C7_Witness ==
  /\ tr_paras = <<"body", "table", "table", "error", "body">>
  /\ tr_index = 1
  /\ tr_out = [status |-> "ok", com_index |-> 4]

(* -------------------------------------------------- registry properties *)
KeysOf(docs) == {docs[i].key : i \in 1..Len(docs)}

\* C10: each key maps to at most one handle, and open on a registered key
\* returns the registered handle itself, loads nothing from disk and
\* leaves the registered keys as they were.
C10_OpenIsIdempotent ==
  /\ \A i, j \in 1..Len(_documents) :
       _documents[i].key = _documents[j].key => i = j
  /\ (/\ reg_last.tool = "open"
      /\ Registered(reg_last.pre_docs, reg_last.key)) =>
        /\ reg_last.status = "ok"
        /\ reg_last.handle = HandleOf(reg_last.pre_docs, reg_last.key).id
        /\ reg_last.handle = HandleOf(_documents, reg_last.key).id
        /\ _documents = reg_last.pre_docs

\* a file was opened and then opened again under its relative name; the
\* second call returned the first call's handle
C10_Witness ==
  /\ reg_last.tool = "open"
  /\ reg_last.key = "/w/a.docx"
  /\ Registered(reg_last.pre_docs, "/w/a.docx")
  /\ Exists(disk, "/w/a.docx")
  /\ reg_last.handle = HandleOf(_documents, "/w/a.docx").id
  /\ Len(_documents) = 1

(* ---------------------------------------------------- bridge properties *)
\* thread t's invocation has returned to its caller
Returned(t) == pc[t] = "done"

\* the invocation of t left the file, the registry and the pool as it
\* found them
NothingChanged(t) ==
  /\ disk = op[t].pre_disk
  /\ _documents = op[t].pre_docs
  /\ ~op[t].mutated
  /\ ~op[t].saved
  /\ _semaphore = pool_size
  /\ _active_instances = <<>>

\* the handle the registry holds for the key of t's invocation is not one
\* it held before the call, and it shows the file as it now is on disk
FreshHandle(t) ==
  /\ Registered(_documents, op[t].key)
  /\ HandleOf(_documents, op[t].key).doc = disk[op[t].key]
  /\ \A i \in 1..Len(op[t].pre_docs) :
       op[t].pre_docs[i].handle.id # HandleOf(_documents, op[t].key).id

\* C5: when a mutating bridge operation during which the instance saved
\* the file has returned, the registry handle of its key is a fresh load of
\* the saved file, whichever way the operation ended
C5_HandleFreshAfterSave ==
  \A t \in Threads : (Returned(t) /\ op[t].saved) => FreshHandle(t)

VerifiedTools == {"tracked_add_paragraph", "tracked_edit_paragraph",
                  "tracked_delete_paragraph"}

\* the structural-model index a verified request addresses
TargetIndex(req) ==
  IF req.tool = "tracked_add_paragraph" THEN ParseInt(req.position).value
  ELSE req.index

\* t's invocation is a verified paragraph operation that opened a document
\* with tracking on and addressed an existing body paragraph whose text
\* does not contain the expected substring
MismatchCase(t) ==
  /\ Returned(t)
  /\ op[t].req.tool \in VerifiedTools
  /\ op[t].req.tool = "tracked_add_paragraph" => op[t].req.position # "end"
  /\ op[t].req.has_expected
  /\ op[t].opened # NoDoc
  /\ op[t].opened.track
  /\ LET body == BodyParagraphs(op[t].opened)
         k == TargetIndex(op[t].req) IN
     /\ k >= 0
     /\ k < Len(body)
     /\ ~Contains(body[k + 1].text \o <<CR>>, op[t].req.expected)

\* C6: a tracked paragraph add (numeric position), edit or delete whose
\* expected substring is not contained, case-sensitively, in the target
\* paragraph returns the content-verification error (or the automation
\* failure, when an automation call raised on the way) with nothing
\* mutated and nothing saved: file and registry are as before the call and
\* the slot is back
C6_MismatchAbortsBeforeMutation ==
  \A t \in Threads :
    MismatchCase(t) =>
      /\ op[t].result \in {"ContentVerificationFailed", "AutomationFailure"}
      /\ NothingChanged(t)

\* a mismatch that differs from the target only by case was reported
C6_Witness ==
  \E t \in Threads :
    /\ MismatchCase(t)
    /\ op[t].result = "ContentVerificationFailed"
    /\ op[t].req.expected = <<"a">>
    /\ TargetIndex(op[t].req) = 1

\* t's invocation is a tracked edit that opened a file whose tracking flag
\* is false
UntrackedCase(t) ==
  /\ Returned(t)
  /\ op[t].req.tool \in TrackedTools
  /\ op[t].opened # NoDoc
  /\ ~op[t].opened.track

\* C8: a tracked add, edit, delete or cell edit on a file whose tracking
\* flag is false returns the tracking-not-enabled error (or the automation
\* failure, when an automation call raised on the way) and mutates
\* nothing: file unchanged, handle not replaced, slot released
C8_UntrackedEditRejected ==
  \A t \in Threads :
    UntrackedCase(t) =>
      /\ op[t].result \in {"TrackingNotEnabled", "AutomationFailure"}
      /\ NothingChanged(t)

\* a tracked cell edit was refused for tracking being off
C8_Witness ==
  \E t \in Threads :
    /\ UntrackedCase(t)
    /\ op[t].req.tool = "tracked_edit_table_cell"
    /\ op[t].result = "TrackingNotEnabled"

\* t's invocation carries something that can be refused without an
\* instance: its key fails the entry checks, or its paragraph index is
\* negative
RejectableWithoutInstance(t) ==
  \/ EntryChecks(op[t].req, op[t].pre_docs, op[t].pre_disk) # ""
  \/ /\ op[t].req.tool \in {"tracked_edit_paragraph",
                            "tracked_delete_paragraph"}
     /\ op[t].req.index < 0

\* C9: an invocation that can be refused without an instance returns an
\* error without acquiring a slot or launching an instance; the pool
\* counters, the tracking set, the registry and the files are untouched
C9_RejectedBeforeAcquire ==
  \A t \in Threads :
    (pc[t] # "idle" /\ RejectableWithoutInstance(t)) =>
      /\ Returned(t)
      /\ op[t].result \notin {"", "ok"}
      /\ NothingChanged(t)
      /\ total_created = 0
      /\ total_failed = 0
      /\ alive = {}

(* ------------------------------------------------- lifecycle properties *)
\* a file is at this key before the step
FileAt(key) == key \in DOMAIN disk /\ disk[key] # NoFile

\* the step leaves the files, the registry and the placeholder counter alone
RegistryFrame ==
  /\ disk' = disk
  /\ _documents' = _documents
  /\ _untitled_counter' = _untitled_counter

\* C11: create with a path at which a file exists fails with the
\* already-exists error; the file, the registry and the placeholder
\* counter are as before
C11_CreateOnExistingFileRefused ==
  [][(reg_last'.tool = "create" /\ FileAt(reg_last'.key)) =>
       /\ reg_last'.status = "FileExistsError"
       /\ Rendered(reg_last'.tool, reg_last'.status) = "Error:"
       /\ RegistryFrame]_vars

\* create was refused for a path that is registered and has a file
C11_Witness ==
  /\ reg_last.tool = "create"
  /\ reg_last.status = "FileExistsError"
  /\ Registered(_documents, reg_last.key)
  /\ disk[reg_last.key] # NoFile

\* C12: save-as onto a path that already has a file does not succeed, and
\* leaves that file and the registry unchanged
C12_SaveAsNeverOverwrites ==
  [][(reg_last'.tool = "save_as" /\ FileAt(reg_last'.key)) =>
       /\ reg_last'.status # "ok"
       /\ disk' = disk
       /\ _documents' = _documents]_vars

\* C13: save on a registered placeholder key fails with the invalid-state
\* error, writes no file and leaves the registry unchanged
C13_SaveOfPlaceholderRefused ==
  [][(/\ reg_last'.tool = "save"
      /\ IsUntitled(reg_last'.key)
      /\ Registered(_documents, reg_last'.key)) =>
       /\ reg_last'.status = "UntitledNeedsPath"
       /\ Rendered(reg_last'.tool, reg_last'.status) = "Error:"
       /\ RegistryFrame]_vars

\* save was refused for a registered placeholder key
C13_Witness ==
  /\ reg_last.tool = "save"
  /\ reg_last.status = "UntitledNeedsPath"
  /\ Registered(_documents, reg_last.key)

\* C14: a successful save-as of key K to path P leaves P mapped to the
\* handle K had, K unregistered when P differs from K, and the file at P
\* holding the handle's content; get, save and close of an unregistered
\* key fail with not-open
C14_SaveAsReKeys ==
  [][/\ (reg_last'.tool = "save_as" /\ reg_last'.status = "ok") =>
          LET K == reg_last'.old_key
              P == reg_last'.key IN
          /\ Registered(_documents', P)
          /\ HandleOf(_documents', P) = HandleOf(_documents, K)
          /\ P # K => ~Registered(_documents', K)
          /\ Content(disk'[P]) = Content(HandleOf(_documents, K).doc)
     /\ (/\ reg_last'.tool \in {"get", "save", "close"}
         /\ ~Registered(_documents, reg_last'.key)) =>
          reg_last'.status = "NotOpen"]_vars

\* a placeholder document was saved under a path and its old key given to
\* close afterwards
C14_Witness ==
  /\ reg_last.tool = "close"
  /\ reg_last.status = "NotOpen"
  /\ IsUntitled(reg_last.key)
  /\ \E p \in AbsPaths :
       /\ Registered(_documents, p)
       /\ hist.saved[p] # NotSaved
       /\ disk[p] # NoFile

\* C15: a tool call given a key with no registered handle returns a
\* string starting with "Error:"; no exception leaves the tool
C15_UnregisteredKeyGivesErrorString ==
  (reg_last.tool # "none" /\ reg_last.status = "NotOpen") =>
    Rendered(reg_last.tool, reg_last.status) = "Error:"

\* C16: the numbers of the placeholder keys generated in one process are
\* strictly increasing
C16_PlaceholderNumbersIncrease ==
  \A i, j \in 1..Len(hist.issued) :
    i < j => hist.issued[i] < hist.issued[j]

\* C17: only save and save-as change a file, and only close, close-all and
\* save-as remove a registered key
C17_OnlySavesWriteOnlyClosesRemove ==
  [][/\ reg_last'.tool \notin {"save", "save_as"} => disk' = disk
     /\ reg_last'.tool \notin {"close", "close_all", "save_as"} =>
          \A k \in KeysOf(_documents) : k \in KeysOf(_documents')]_vars

\* a document edited in memory was closed while its file was on disk
C17_Witness ==
  /\ reg_last.tool = "close"
  /\ reg_last.status = "ok"
  /\ reg_last.key \in AbsPaths
  /\ disk[reg_last.key] # NoFile
  /\ Content(HandleOf(reg_last.pre_docs, reg_last.key).doc)
       # Content(disk[reg_last.key])

\* C18: no registered handle was loaded from a file larger than the cap
C18_NoOversizedFileLoaded ==
  \A i \in 1..Len(_documents) :
    _documents[i].handle.doc.size <= MAX_DOCUMENT_SIZE

\* the last call opened, from disk, a path this process saved before
ReopenedCase ==
  /\ reg_last.tool = "open"
  /\ ~Registered(reg_last.pre_docs, reg_last.key)
  /\ hist.saved[reg_last.key] # NotSaved

\* the paragraphs of the handle the last open returned are those of the
\* handle at the last save of that path
SameAsSaved ==
  /\ reg_last.status = "ok"
  /\ Registered(_documents, reg_last.key)
  /\ BodyParagraphs(HandleOf(_documents, reg_last.key).doc)
       = hist.saved[reg_last.key]

\* C19 as stated: after save and close, open of the same path gives a
\* handle whose paragraphs are those in memory at the save
C19_RoundTripAlways == ReopenedCase => SameAsSaved

\* C19: after save and close, open of the same path gives a handle whose
\* paragraphs are those in memory at the last save (edits made after it
\* are not there), provided the saved file is within the size cap
C19_RoundTripWithinCap ==
  (ReopenedCase /\ disk[reg_last.key].size <= MAX_DOCUMENT_SIZE) =>
    SameAsSaved

\* a created document with a paragraph was saved, closed and opened again
C19_Witness ==
  /\ ReopenedCase
  /\ SameAsSaved
  /\ hist.saved[reg_last.key] # <<>>

\* the sequence without its element at the zero-based index
Without(seq, index) ==
  [j \in 1..(Len(seq) - 1) |-> IF j <= index THEN seq[j] ELSE seq[j + 1]]

\* C20: a successful add_paragraph raises the paragraph count by one and a
\* successful delete_paragraph lowers it by one, the tool reporting the
\* new count (so N adds and M deletes change it by N - M); a rejected call
\* changes nothing; a delete at index i removes the paragraph at i and
\* keeps the others in order
C20_CountsFollowEdits ==
  [][(reg_last'.tool \in {"add_paragraph", "delete_paragraph"}
        /\ Registered(_documents, reg_last'.key)) =>
       LET before == BodyParagraphs(HandleOf(_documents, reg_last'.key).doc)
           after == BodyParagraphs(HandleOf(_documents', reg_last'.key).doc)
       IN
       /\ (reg_last'.tool = "add_paragraph" /\ reg_last'.status = "ok") =>
            /\ Len(after) = Len(before) + 1
            /\ reg_last'.count = Len(after)
       /\ (reg_last'.tool = "delete_paragraph" /\ reg_last'.status = "ok") =>
            /\ Len(after) = Len(before) - 1
            /\ reg_last'.count = Len(after)
            /\ after = Without(before, reg_last'.arg)
       /\ reg_last'.status # "ok" =>
            /\ _documents' = _documents
            /\ disk' = disk]_vars

\* the paragraph at index 1 of three was deleted
C20_Witness ==
  /\ reg_last.tool = "delete_paragraph"
  /\ reg_last.status = "ok"
  /\ reg_last.arg = 1
  /\ Len(BodyParagraphs(HandleOf(reg_last.pre_docs, reg_last.key).doc)) = 3

\* C25: close_all returns the number of handles that were registered,
\* leaves the registry empty and the placeholder counter at zero, also
\* when the registry was already empty
C25_CloseAllResetsCounter ==
  [][reg_last'.tool = "close_all" =>
       /\ reg_last'.count = Len(_documents)
       /\ _documents' = <<>>
       /\ _untitled_counter' = 0]_vars

\* C26: the open tool given a key that is registered reports success with
\* the registered handle, whatever is on disk
C26_OpenToolIdempotentOnRegisteredKey ==
  (reg_last.tool = "open" /\ Registered(reg_last.pre_docs, reg_last.key)) =>
    /\ Rendered(reg_last.tool, reg_last.status) = "ok"
    /\ reg_last.handle = HandleOf(reg_last.pre_docs, reg_last.key).id
    /\ _documents = reg_last.pre_docs

\* C27: create, create_from_template and save-as leave a handle that is
\* registered under their target key registered, and never lower the
\* number of registered documents
C27_TargetKeyHandleKept ==
  [][reg_last'.tool \in {"create", "create_from_template", "save_as"} =>
       /\ Len(_documents') >= Len(_documents)
       /\ Registered(_documents, reg_last'.key) =>
            /\ Registered(_documents', reg_last'.key)
            /\ \/ HandleOf(_documents', reg_last'.key)
                    = HandleOf(_documents, reg_last'.key)
               \/ /\ reg_last'.tool = "save_as"
                  /\ reg_last'.status = "ok"
                  /\ reg_last'.old_key = reg_last'.key]_vars

(* -------------------------------------------------- shutdown properties *)
\* C21: close_all drops no instance from _active_instances that it did not
\* try to terminate, and the list is empty at the step at which it returns
C21_ShutdownTerminatesWhatItDrops ==
  /\ [](shutdown.dropped \subseteq shutdown.attempted)
  /\ [][(shutdown.pc # "returned" /\ shutdown'.pc = "returned") =>
          _active_instances' = <<>>]_vars

\* C22: a thread waits for a permit holding neither the lock nor a permit,
\* and, under fair scheduling with every call inside the scope
\* terminating, a thread at the semaphore gets its permit
C22_BlockedAcquireProceeds ==
  /\ [](\A t \in Threads :
          pc[t] = "acquire" => (_lock # t /\ t \notin Holders))
  /\ \A t \in Threads : (pc[t] = "acquire") ~> (pc[t] = "dispatch")

\* a thread that found every permit taken has its permit
C22_Witness ==
  \E t \in Threads :
    /\ blocked[t]
    /\ pc[t] = "dispatch"
    /\ _semaphore = 0

\* the thread, or the shutdown thread, whose step this is
Stepping(who) ==
  IF who = ShutdownThread THEN shutdown'.pc # shutdown.pc
  ELSE pc'[who] # pc[who]

\* the positions at which a thread is inside a call that blocks
BlockingPcs == {"acquire", "dispatch", "close_docs", "quit"}

\* C24: _active_instances, total_created and total_failed change only in
\* a step of the thread that holds _lock, and no thread holds _lock while
\* it is in the semaphore acquire, the launch, the document close or the
\* terminate
C24_MutationsUnderLock ==
  /\ [][(\/ _active_instances' # _active_instances
         \/ total_created' # total_created
         \/ total_failed' # total_failed) =>
          (_lock # 0 /\ Stepping(_lock))]_vars
  /\ [](/\ \A t \in Threads : pc[t] \in BlockingPcs => _lock # t
        /\ shutdown.pc \in {"close_docs", "quit"} => _lock # ShutdownThread)

\* close_all emptied a list that held an instance, while another thread
\* was waiting for the lock
C24_Witness ==
  /\ shutdown.pc = "returned"
  /\ shutdown.dropped # {}
  /\ total_created > 0
  /\ \E t \in Threads : pc[t] \in {"track_lock", "except_lock", "remove_lock"}

(* ------------------------------------------- concurrent bridge properties *)
\* what the instance of t's invocation saved: the tool's change applied to
\* the document it opened
WrittenBy(t) == ToolBody(op[t].req, op[t].opened).doc

\* two invocations on one key opened the same file content, and both
\* saved and reported success
BothSaved(t, u) ==
  /\ t # u
  /\ Returned(t) /\ Returned(u)
  /\ op[t].result = "ok" /\ op[u].result = "ok"
  /\ op[t].saved /\ op[u].saved
  /\ op[t].key = op[u].key
  /\ op[t].opened = op[u].opened

\* C23: nothing keeps two invocations on one key apart: when both opened
\* the same file, saved and reported success, the file is what one of the
\* two instances saved, the change of the other is not in it
C23_LastSaveWins ==
  \A t, u \in Threads :
    BothSaved(t, u) =>
      Content(disk[op[t].key]) \in {Content(WrittenBy(t)), Content(WrittenBy(u))}

\* with a pool of more than one slot, two tracked edits of different
\* paragraphs of the same file both reported success, and the file has the
\* new text in one of the two paragraphs only
C23_Witness ==
  /\ pool_size >= 2
  /\ \E t, u \in Threads :
       /\ BothSaved(t, u)
       /\ op[t].req.tool = "tracked_edit_paragraph"
       /\ op[u].req.tool = "tracked_edit_paragraph"
       /\ op[t].req.index = 0
       /\ op[u].req.index = 1
       /\ LET before == BodyParagraphs(op[t].opened)
              after == BodyParagraphs(disk[op[t].key]) IN
          /\ after[1] = before[1]
          /\ after[2].text = NewText
          /\ before[1].text # NewText

\* C30: when every one of the concurrent invocations on a key has returned
\* success, the registry handle of the key is a load of the file as it
\* then is
C30_HandleIsFinalFile ==
  (\A t \in Threads :
     /\ Returned(t)
     /\ op[t].result = "ok"
     /\ op[t].req.tool # "get_tracked_changes"
     /\ op[t].key = op[1].key) =>
    /\ Registered(_documents, op[1].key)
    /\ HandleOf(_documents, op[1].key).doc = disk[op[1].key]

\* C28: the assignment that ends a bridge invocation registers no key that
\* is not registered when it is made: a key closed, re-keyed or cleared
\* while the invocation was in flight stays unregistered
C28_ReloadKeepsClosedKeyClosed ==
  [][\A t \in Threads :
       (pc[t] = "store" /\ pc'[t] = "done") =>
         (~Registered(_documents, op[t].key) =>
            ~Registered(_documents', op[t].key))]_vars

\* t's invocation of a mutating tool returned success, and no lifecycle or
\* paragraph tool was called while it ran
AloneAndDone(t) ==
  /\ Returned(t)
  /\ op[t].result = "ok"
  /\ op[t].req.tool # "get_tracked_changes"
  /\ reg_budget = op[t].pre_budget

\* C29: after a successful mutating bridge invocation on key K the handle
\* of K is a load of the file, the file is what the instance saved (the
\* tool's change applied to the file as it was, not to the handle's
\* in-memory document), and the other keys have the handles they had
C29_HandleIsSavedFile ==
  \A t \in Threads :
    AloneAndDone(t) =>
      LET K == op[t].key IN
      /\ Registered(_documents, K)
      /\ HandleOf(_documents, K).doc = disk[K]
      /\ Content(disk[K]) = Content(ToolBody(op[t].req, op[t].pre_disk[K]).doc)
      /\ KeysOf(_documents) = KeysOf(op[t].pre_docs)
      /\ \A k \in KeysOf(_documents) \ {K} :
           HandleOf(_documents, k) = HandleOf(op[t].pre_docs, k)
      /\ \A p \in AbsPaths \ {K} : disk[p] = op[t].pre_disk[p]

\* a paragraph added in memory and never saved is neither in the new
\* handle nor in the file after the invocation, and a placeholder document
\* still has its handle
C29_Witness ==
  \E t \in Threads :
    /\ AloneAndDone(t)
    /\ Len(BodyParagraphs(HandleOf(op[t].pre_docs, op[t].key).doc)) = 3
    /\ Len(BodyParagraphs(op[t].pre_disk[op[t].key])) = 2
    /\ Len(BodyParagraphs(HandleOf(_documents, op[t].key).doc)) = 2
    /\ Len(BodyParagraphs(disk[op[t].key])) = 2
    /\ Registered(_documents, "Untitled-1")

====
